---- MODULE Spec2Model ----
(***************************************************************************)
(* A model of confedit (thedataflows/confedit): the structure-preserving   *)
(* INI parser and its map-shaped edit wrapper, the managed-key diff, the   *)
(* per-kind executors and the reconciliation engine with its hook runner.  *)
(*                                                                         *)
(* Byte strings are sequences of one-character strings.  A Go              *)
(* map[string]interface{} is a function from byte strings to tagged        *)
(* values: Str(s) a string, BoolV(b) a bool, MapV(f) a nested map.         *)
(***************************************************************************)
EXTENDS Integers, Sequences, FiniteSets, TLC

VARIABLES
    input,      \* the bytes handed to Parse / Unmarshal
    w,          \* the INI wrapper: cached lines and the parser's options
    data,       \* the map the caller holds between Unmarshal and Marshal
    output,     \* the bytes written by Serialize / Marshal
    edits,      \* the map mutations the caller made, in order
    ipc,        \* position of the caller of the INI wrapper
    round1,     \* the map and the bytes of the caller's first Marshal
    flat,       \* the flattened desired map of the caller's last diff
    ld,         \* the configuration loader: its files, its position, its result
    call,       \* the caller's last call of the parser's line operations
    cli,        \* the command line: DryRun, Force, Backup, Targets
    sysconf,    \* the loaded SystemConfig: Targets and Hooks
    targets,    \* CommandContext.Targets, the selected targets
    fs,         \* the files: path -> [exists, bytes]
    fs0,        \* the files when the command started
    bk,         \* the backup files made so far
    pc,         \* position in ApplyCmd.Run
    hk,         \* index of the next hook script
    idx,        \* index of the target Reconcile is at
    phase,      \* position in reconcileTarget
    cur,        \* currentSystemState of the target being reconciled
    curDiff,    \* the diff computed for the target being reconciled
    log,        \* what the run did to the system, in order
    exitErr,    \* the error the command returned
    run,        \* the number of the run of the command
    last,       \* the last file write: target, file before and after, lines
    snap        \* the files when Reconcile came to the target it is at

iniVars == <<input, data, output, edits, ipc, round1, flat, ld, call>>

engVars == <<cli, sysconf, targets, fs, fs0, bk, pc, hk, idx, phase, cur, curDiff,
             log, exitErr, run, last, snap>>

vars == <<input, w, data, output, edits, ipc, round1, flat, ld, call, cli, sysconf,
          targets, fs, fs0, bk, pc, hk, idx, phase, cur, curDiff, log, exitErr, run, last, snap>>

-----------------------------------------------------------------------------
(* Bytes *)

LF == "\n"
CR == "\r"
SP == " "
TAB == "\t"

\* the longest byte string the parser is given in SpecParse
MaxLen == 4

\* the bytes the parser's inputs are drawn from: a key byte, the delimiter,
\* the section brackets, a comment character, a blank, and both line ends
Alphabet == {"a", "=", "[", "]", "#", SP, CR, LF}

RECURSIVE SeqsUpTo(_, _)
SeqsUpTo(S, n) ==
    IF n = 0 THEN {<<>>}
    ELSE LET shorter == SeqsUpTo(S, n - 1)
         IN  shorter \cup {Append(s, c) : s \in {t \in shorter : Len(t) = n - 1}, c \in S}

Tail2(s, i) == SubSeq(s, i, Len(s))

IsWS(c) == c \in {SP, TAB}

\* first index j >= i of l with l[j] = c, or Len(l) + 1
Find(l, i, c) ==
    IF \E j \in i..Len(l) : l[j] = c
    THEN CHOOSE j \in i..Len(l) : l[j] = c /\ \A k \in i..(j - 1) : l[k] # c
    ELSE Len(l) + 1

\* first index j >= i of l whose byte is neither space nor tab, or Len(l) + 1
SkipWS(l, i) ==
    IF \E j \in i..Len(l) : ~IsWS(l[j])
    THEN CHOOSE j \in i..Len(l) : ~IsWS(l[j]) /\ \A k \in i..(j - 1) : IsWS(l[k])
    ELSE Len(l) + 1

\* keyActualEnd: the smallest e in from..to with only blanks in l[e..to-1]
TrimEnd(l, from, to) ==
    CHOOSE e \in from..to :
        /\ \A k \in e..(to - 1) : IsWS(l[k])
        /\ (e > from => ~IsWS(l[e - 1]))

RECURSIVE Join(_)
Join(ls) == IF ls = <<>> THEN <<>> ELSE Head(ls) \o <<LF>> \o Join(Tail(ls))

\* the lines of d as split at each newline, nothing dropped
RECURSIVE RawLines(_)
RawLines(d) ==
    IF d = <<>> THEN <<>>
    ELSE LET j == Find(d, 1, LF)
         IN  IF j <= Len(d) THEN <<SubSeq(d, 1, j - 1)>> \o RawLines(Tail2(d, j + 1))
             ELSE <<d>>

\* the sequence s without the elements at the indexes in drop
RECURSIVE DropAt(_, _, _)
DropAt(s, i, drop) ==
    IF i > Len(s) THEN <<>>
    ELSE (IF i \in drop THEN <<>> ELSE <<s[i]>>) \o DropAt(s, i + 1, drop)

-----------------------------------------------------------------------------
(* RelaxedINIParser: ini.go *)

INILine(section, original) ==
    [Section |-> section, Key |-> <<>>, Value |-> <<>>, Indent |-> <<>>,
     Delimiter |-> <<>>, Suffix |-> <<>>, CommentPrefix |-> <<>>,
     Original |-> original, IsEmpty |-> FALSE, IsSection |-> FALSE]

\* the zero value INILine{}
ZeroLine == INILine(<<>>, <<>>)

NewRelaxedINIParser ==
    [useSpacing |-> TRUE, commentChars |-> {"#", ";"}, delimiter |-> "="]

parseLine(p, lineBytes, section) ==
    LET n == Len(lineBytes)
        iniLine == INILine(section, lineBytes)
        i1 == SkipWS(lineBytes, 1)
        indented == [iniLine EXCEPT !.Indent = SubSeq(lineBytes, 1, i1 - 1)]
    IN
    IF n = 0 THEN [iniLine EXCEPT !.IsEmpty = TRUE]
    ELSE IF i1 > n THEN [indented EXCEPT !.IsEmpty = TRUE]
    ELSE IF lineBytes[i1] \in p.commentChars THEN
        LET i2 == SkipWS(lineBytes, i1 + 1)
            commented == [indented EXCEPT !.CommentPrefix = SubSeq(lineBytes, i1, i2 - 1)]
        IN  IF i2 > n THEN commented
            ELSE [commented EXCEPT !.Key = Tail2(lineBytes, i2)]
    ELSE IF lineBytes[i1] = "[" THEN
        LET close == Find(lineBytes, i1 + 1, "]")
            header == [indented EXCEPT !.IsSection = TRUE]
        IN  IF close <= n
            THEN [header EXCEPT !.Section = SubSeq(lineBytes, i1 + 1, close - 1),
                                !.Suffix = Tail2(lineBytes, close + 1)]
            ELSE [header EXCEPT !.Section = Tail2(lineBytes, i1 + 1)]
    ELSE
        LET d == Find(lineBytes, i1, p.delimiter)
        IN  IF d <= n
            THEN LET keyActualEnd == TrimEnd(lineBytes, i1, d)
                     v == SkipWS(lineBytes, d + 1)
                 IN  [indented EXCEPT !.Key = SubSeq(lineBytes, i1, keyActualEnd - 1),
                                      !.Delimiter = SubSeq(lineBytes, keyActualEnd, v - 1),
                                      !.Value = Tail2(lineBytes, v)]
            ELSE [indented EXCEPT !.Key = Tail2(lineBytes, i1)]

\* bufio.ScanLines: a trailing carriage return is not part of the token
dropCR(l) ==
    IF Len(l) > 0 /\ l[Len(l)] = CR THEN SubSeq(l, 1, Len(l) - 1) ELSE l

\* bufio.Scanner with ScanLines: the tokens of data, the final one also when
\* no newline ends it (and then only if it is not empty)
RECURSIVE ScanLines(_)
ScanLines(d) ==
    IF d = <<>> THEN <<>>
    ELSE LET j == Find(d, 1, LF)
         IN  IF j <= Len(d)
             THEN <<dropCR(SubSeq(d, 1, j - 1))>> \o ScanLines(Tail2(d, j + 1))
             ELSE <<dropCR(d)>>

RECURSIVE parseTokens(_, _, _)
parseTokens(p, tokens, currentSection) ==
    IF tokens = <<>> THEN <<>>
    ELSE LET parsedLine == parseLine(p, Head(tokens), currentSection)
             nextSection == IF parsedLine.IsSection THEN parsedLine.Section
                            ELSE currentSection
         IN  <<parsedLine>> \o parseTokens(p, Tail(tokens), nextSection)

Parse(p, bytes) == parseTokens(p, ScanLines(bytes), <<>>)

\* one line as written, without the newline fmt.Fprintln adds
writeLine(p, line) ==
    IF line.IsEmpty \/ (line.CommentPrefix # <<>> /\ line.Key = <<>>)
    THEN line.Original
    ELSE IF line.IsSection
    THEN line.Indent \o line.CommentPrefix \o <<"[">> \o line.Section \o <<"]">>
            \o line.Suffix
    ELSE LET kv == IF line.Key = <<>> THEN <<>>
                   ELSE IF line.Delimiter # <<>>
                        THEN line.Key \o line.Delimiter \o line.Value
                   ELSE IF line.Value # <<>>
                        THEN line.Key
                             \o (IF p.useSpacing THEN <<SP, p.delimiter, SP>>
                                 ELSE <<p.delimiter>>)
                             \o line.Value
                   ELSE line.Key
         IN  line.Indent \o line.CommentPrefix \o kv \o line.Suffix

RECURSIVE Serialize(_, _)
Serialize(p, lines) ==
    IF lines = <<>> THEN <<>>
    ELSE writeLine(p, Head(lines)) \o <<LF>> \o Serialize(p, Tail(lines))

-----------------------------------------------------------------------------
(* Go values: map[string]interface{} and what it holds *)

Str(s) == [k |-> "str", s |-> s, m |-> <<>>]
BoolV(b) == [k |-> "bool", s |-> IF b THEN <<"true">> ELSE <<"false">>, m |-> <<>>]
MapV(f) == [k |-> "map", s |-> <<>>, m |-> f]
\* a []string
ListV(l) == [k |-> "list", s |-> l, m |-> <<>>]
\* the nil interface value: what a lookup of a missing key returns
NilV == [k |-> "nil", s |-> <<>>, m |-> <<>>]

IsMap(v) == v.k = "map"
IsStr(v) == v.k = "str"

EmptyMap == <<>>

\* f[key] = v, as a Go map assignment
Put(f, key, v) == [x \in (DOMAIN f) \cup {key} |-> IF x = key THEN v ELSE f[x]]

\* f[key], nil when the key is missing
Get(f, key) == IF key \in DOMAIN f THEN f[key] ELSE NilV

\* the sentinel keys of the INI value wrappers
DELETED == <<"deleted">>
COMMENTED == <<"commented">>
VALUE == <<"value">>

DeletedV == MapV(DELETED :> BoolV(TRUE))
CommentedV(v) == MapV((VALUE :> Str(v)) @@ (COMMENTED :> Str(<<"#", SP>>)))

\* value is a map holding deleted == true
IsDeletedMarker(value) ==
    IsMap(value) /\ DELETED \in DOMAIN value.m /\ value.m[DELETED] = BoolV(TRUE)

\* Go ranges over a map in an order the runtime picks: ord is that order, a
\* sequence of names; names ord leaves out come last
RECURSIVE AnySeq(_)
AnySeq(S) ==
    IF S = {} THEN <<>>
    ELSE LET x == CHOOSE y \in S : TRUE IN <<x>> \o AnySeq(S \ {x})

Range(s) == {s[i] : i \in DOMAIN s}

InOrder(S, ord) ==
    SelectSeq(ord, LAMBDA x : x \in S) \o AnySeq(S \ Range(ord))

Perms(S) ==
    {s \in [1..Cardinality(S) -> S] : \A i, j \in 1..Cardinality(S) : s[i] = s[j] => i = j}

-----------------------------------------------------------------------------
(* INIWrapper: ini_wrapper.go *)

NewINIWrapper == [lines |-> <<>>, parser |-> NewRelaxedINIParser]

IsActiveKey(line) == ~line.IsSection /\ line.Key # <<>> /\ line.CommentPrefix = <<>>

\* the section map of result, created when missing or not a map
ensureSection(result, section) ==
    IF section \in DOMAIN result /\ IsMap(result[section])
    THEN result[section].m
    ELSE EmptyMap

RECURSIVE unmarshalLines(_, _)
unmarshalLines(lines, result) ==
    IF lines = <<>> THEN result
    ELSE LET line == Head(lines)
         IN  IF line.Key = <<>> \/ line.CommentPrefix # <<>>
             THEN unmarshalLines(Tail(lines), result)
             ELSE LET section == ensureSection(result, line.Section)
                  IN  unmarshalLines(Tail(lines),
                         Put(result, line.Section,
                             MapV(Put(section, line.Key, Str(line.Value)))))

\* the map Unmarshal returns for the parsed lines (the lines go to w.lines)
Unmarshal(lines) == unmarshalLines(lines, EmptyMap)

makeKey(section, key) == section \o <<":", ":">> \o key

findValue(d, section, key) ==
    IF section \in DOMAIN d /\ IsMap(d[section])
    THEN Get(d[section].m, key)
    ELSE NilV

updateLineValue(line, value) ==
    IF IsDeletedMarker(value) THEN ZeroLine
    ELSE IF IsStr(value) THEN [line EXCEPT !.Value = value.s, !.CommentPrefix = <<>>]
    ELSE line

createLine(section, key, value) ==
    IF IsDeletedMarker(value) THEN ZeroLine
    ELSE [INILine(section, <<>>) EXCEPT
              !.Key = key,
              !.Value = IF IsStr(value) THEN value.s ELSE <<>>]

\* first pass of updateLines: the kept and updated lines
RECURSIVE firstPass(_, _, _)
firstPass(lines, d, currentSection) ==
    IF lines = <<>> THEN <<>>
    ELSE LET line == Head(lines)
             rest == Tail(lines)
         IN  IF line.IsSection
             THEN <<line>> \o firstPass(rest, d, line.Section)
             ELSE IF line.Key = <<>> \/ line.CommentPrefix # <<>>
             THEN <<line>> \o firstPass(rest, d, currentSection)
             ELSE LET value == findValue(d, currentSection, line.Key)
                  IN  IF value = NilV
                      THEN firstPass(rest, d, currentSection)
                      ELSE <<updateLineValue(line, value)>>
                               \o firstPass(rest, d, currentSection)

\* the tracking keys the first pass marks as processed
RECURSIVE processedKeys(_, _)
processedKeys(lines, currentSection) ==
    IF lines = <<>> THEN {}
    ELSE LET line == Head(lines)
         IN  IF line.IsSection THEN processedKeys(Tail(lines), line.Section)
             ELSE IF line.Key = <<>> \/ line.CommentPrefix # <<>>
             THEN processedKeys(Tail(lines), currentSection)
             ELSE {makeKey(currentSection, line.Key)}
                      \cup processedKeys(Tail(lines), currentSection)

\* newKeys[sectionName]: the keys of that section no line was processed for,
\* in range order; a section without such a key has no entry
collectNewKeys(d, processed, ord) ==
    LET fresh(sec) == {key \in DOMAIN d[sec].m : makeKey(sec, key) \notin processed}
        secs == {sec \in DOMAIN d : IsMap(d[sec]) /\ fresh(sec) # {}}
    IN  [sec \in secs |-> InOrder(fresh(sec), ord)]

isLastKeyInSection(lines, index) ==
    LET stops == {i \in (index + 1)..Len(lines) :
                     lines[i].IsSection
                     \/ (lines[i].Key # <<>> /\ lines[i].CommentPrefix = <<>>)}
    IN  IF stops = {} THEN TRUE
        ELSE LET first == CHOOSE i \in stops : \A j \in stops : i <= j
             IN  lines[first].IsSection

RECURSIVE createLines(_, _, _)
createLines(section, keys, sectionMap) ==
    IF keys = <<>> THEN <<>>
    ELSE <<createLine(section, Head(keys), sectionMap[Head(keys)])>>
             \o createLines(section, Tail(keys), sectionMap)

\* the loop of insertNewKeys over lines[i..]; pending are the sections of
\* newKeys not yet deleted from it
RECURSIVE insertLoop(_, _, _, _, _, _)
insertLoop(lines, i, currentSection, newKeys, pending, d) ==
    IF i > Len(lines) THEN [result |-> <<>>, pending |-> pending]
    ELSE LET line == lines[i]
             sec == IF line.IsSection THEN line.Section ELSE currentSection
             here == sec \in pending /\ isLastKeyInSection(lines, i)
             added == IF here THEN createLines(sec, newKeys[sec], d[sec].m) ELSE <<>>
             after == insertLoop(lines, i + 1, sec, newKeys,
                                 IF here THEN pending \ {sec} ELSE pending, d)
         IN  [result |-> <<line>> \o added \o after.result, pending |-> after.pending]

RECURSIVE remainingSections(_, _, _)
remainingSections(secs, newKeys, d) ==
    IF secs = <<>> THEN <<>>
    ELSE LET sectionName == Head(secs)
             header == IF sectionName # <<>>
                       THEN <<[INILine(sectionName, <<>>) EXCEPT !.IsSection = TRUE]>>
                       ELSE <<>>
         IN  header \o createLines(sectionName, newKeys[sectionName], d[sectionName].m)
                 \o remainingSections(Tail(secs), newKeys, d)

insertNewKeys(lines, newKeys, d, ord) ==
    LET loop == insertLoop(lines, 1, <<>>, newKeys, DOMAIN newKeys, d)
    IN  loop.result \o remainingSections(InOrder(loop.pending, ord), newKeys, d)

updateLines(wr, d, ord) ==
    LET lines == firstPass(wr.lines, d, <<>>)
        newKeys == collectNewKeys(d, processedKeys(wr.lines, <<>>), ord)
    IN  IF DOMAIN newKeys # {} THEN insertNewKeys(lines, newKeys, d, ord) ELSE lines

\* createLine for each key, the lines with an empty Key skipped
RECURSIVE buildKeys(_, _, _)
buildKeys(section, keys, sectionMap) ==
    IF keys = <<>> THEN <<>>
    ELSE LET line == createLine(section, Head(keys), sectionMap[Head(keys)])
         IN  (IF line.Key = <<>> THEN <<>> ELSE <<line>>)
                 \o buildKeys(section, Tail(keys), sectionMap)

RECURSIVE buildSections(_, _, _)
buildSections(secs, d, ord) ==
    IF secs = <<>> THEN <<>>
    ELSE LET sectionName == Head(secs)
             skip == sectionName = <<>> \/ ~IsMap(d[sectionName])
                     \/ DOMAIN d[sectionName].m = {}
         IN  (IF skip THEN <<>>
              ELSE <<[INILine(sectionName, <<>>) EXCEPT !.IsSection = TRUE]>>
                       \o buildKeys(sectionName,
                                    InOrder(DOMAIN d[sectionName].m, ord),
                                    d[sectionName].m))
                 \o buildSections(Tail(secs), d, ord)

buildLines(d, ord) ==
    (IF <<>> \in DOMAIN d /\ IsMap(d[<<>>])
     THEN buildKeys(<<>>, InOrder(DOMAIN d[<<>>].m, ord), d[<<>>].m)
     ELSE <<>>)
        \o buildSections(InOrder(DOMAIN d, ord), d, ord)

\* the bytes Marshal writes for the map d
Marshal(wr, d, ord) ==
    Serialize(wr.parser,
              IF Len(wr.lines) > 0 THEN updateLines(wr, d, ord) ELSE buildLines(d, ord))

\* every name a range over d or over one of its section maps can meet
NamesOf(d) ==
    (DOMAIN d) \cup UNION {DOMAIN d[sec].m : sec \in {x \in DOMAIN d : IsMap(d[x])}}

-----------------------------------------------------------------------------
(* utils.DeepMerge *)

RECURSIVE DeepMerge(_, _)
DeepMerge(existing, newContent) ==
    [key \in (DOMAIN existing) \cup (DOMAIN newContent) |->
        IF key \notin DOMAIN newContent THEN existing[key]
        ELSE IF key \in DOMAIN existing /\ IsMap(existing[key]) /\ IsMap(newContent[key])
             THEN MapV(DeepMerge(existing[key].m, newContent[key].m))
        ELSE newContent[key]]

-----------------------------------------------------------------------------
(* state: the ConfigDiff and the managed-key filter *)

\* the *ConfigDiff nil pointer
NilDiff == [isNil |-> TRUE, Target |-> "", Changes |-> EmptyMap, Added |-> EmptyMap,
            Removed |-> <<>>, Modified |-> EmptyMap]

ConfigDiff(changes, added, removed, modified) ==
    [isNil |-> FALSE, Target |-> "", Changes |-> changes, Added |-> added,
     Removed |-> removed, Modified |-> modified]

IsEmpty(d) == DOMAIN d.Changes = {} /\ Len(d.Removed) = 0

\* ComputeDiff without its second loop, the one that finds the removed keys
C18_ComputeDiffWithoutRemoved(current, desired, ord) ==
    LET modified == {key \in DOMAIN desired :
                        key \in DOMAIN current /\ current[key] # desired[key]}
        added == {key \in DOMAIN desired : key \notin DOMAIN current}
    IN  ConfigDiff(
            [key \in modified \cup added |-> desired[key]],
            [key \in added |-> desired[key]],
            <<>>,
            [key \in modified |-> [Old |-> current[key], New |-> desired[key]]])

ComputeDiff(current, desired, ord) ==
    LET modified == {key \in DOMAIN desired :
                        key \in DOMAIN current /\ current[key] # desired[key]}
        added == {key \in DOMAIN desired : key \notin DOMAIN current}
        removed == {key \in DOMAIN current : key \notin DOMAIN desired}
    IN  ConfigDiff(
            [key \in modified \cup added \cup removed |->
                IF key \in removed THEN current[key] ELSE desired[key]],
            [key \in added |-> desired[key]],
            InOrder(removed, ord),
            [key \in modified |-> [Old |-> current[key], New |-> desired[key]]])

\* a nested map FlattenForDiff keeps as a leaf
IsSentinel(value) ==
    IsMap(value) /\ (DOMAIN value.m) \cap {DELETED, COMMENTED, VALUE} # {}

\* a later assignment to the same flat key replaces the earlier one
Overwrite(result, more) ==
    [key \in (DOMAIN result) \cup (DOMAIN more) |->
        IF key \in DOMAIN more THEN more[key] ELSE result[key]]

RECURSIVE FlattenForDiff(_, _, _)
RECURSIVE flattenKeys(_, _, _, _, _)
flattenKeys(d, prefix, keys, result, ord) ==
    IF keys = <<>> THEN result
    ELSE LET key == Head(keys)
             fullKey == IF prefix # <<>> THEN prefix \o <<".">> \o key ELSE key
             value == d[key]
         IN  flattenKeys(d, prefix, Tail(keys),
                 IF IsMap(value) /\ ~IsSentinel(value)
                 THEN Overwrite(result, FlattenForDiff(value.m, fullKey, ord))
                 ELSE Put(result, fullKey, value),
                 ord)

FlattenForDiff(d, prefix, ord) ==
    flattenKeys(d, prefix, InOrder(DOMAIN d, ord), EmptyMap, ord)

\* ComputeFlatDiff leaving the {deleted: true} leaves in the flattened desired
C15_ComputeFlatDiffKeepingDeleted(current, desired, ord, ordDesired) ==
    ComputeDiff(FlattenForDiff(current, <<>>, ord),
                FlattenForDiff(desired, <<>>, ordDesired), ord)

\* ord and ordDesired: the orders in which the runtime ranges over current
\* and over desired, which it picks anew for every range statement
ComputeFlatDiff(current, desired, ord, ordDesired) ==
    LET flatCurrent == FlattenForDiff(current, <<>>, ord)
        flatDesired == FlattenForDiff(desired, <<>>, ordDesired)
        kept == {key \in DOMAIN flatDesired : ~IsDeletedMarker(flatDesired[key])}
    IN  ComputeDiff(flatCurrent, [key \in kept |-> flatDesired[key]], ord)

extractRootSection(current) ==
    IF <<>> \in DOMAIN current /\ IsMap(current[<<>>]) THEN current[<<>>] ELSE NilV

findKeyInCurrent(key, current, rootSection) ==
    IF key \in DOMAIN current THEN current[key]
    ELSE IF rootSection # NilV /\ key \in DOMAIN rootSection.m THEN rootSection.m[key]
    ELSE NilV

\* whether findKeyInCurrent reports the key as existing
existsInCurrent(key, current, rootSection) ==
    key \in DOMAIN current \/ (rootSection # NilV /\ key \in DOMAIN rootSection.m)

RECURSIVE filterManagedKeys(_, _)
filterKeyValue(currentValue, desiredValue) ==
    IF IsMap(currentValue) /\ IsMap(desiredValue)
    THEN MapV(filterManagedKeys(currentValue.m, desiredValue.m))
    ELSE currentValue

filterManagedKeys(current, desired) ==
    LET rootSection == extractRootSection(current)
        managed == {key \in DOMAIN desired : existsInCurrent(key, current, rootSection)}
    IN  [key \in managed |->
            filterKeyValue(findKeyInCurrent(key, current, rootSection), desired[key])]

ComputeDiffWithCurrent(target, desired, currentSystemState, ord, ordDesired) ==
    [ComputeFlatDiff(filterManagedKeys(currentSystemState, desired), desired, ord,
                     ordDesired)
        EXCEPT !.Target = target]

-----------------------------------------------------------------------------
(* Targets and the world the executors act on *)

TYPE_FILE == "file"
TYPE_DCONF == "dconf"
TYPE_SYSTEMD == "systemd"
TYPE_SED == "sed"

\* the fields of the four Config structs in one record; a target's type says
\* which of them it has
BaseConfig ==
    [Path |-> "", Format |-> "", Owner |-> "", Group |-> "", Mode |-> <<>>,
     Backup |-> FALSE, Content |-> EmptyMap, Options |-> EmptyMap,
     Schema |-> "", User |-> "", Settings |-> EmptyMap,
     Unit |-> "", Section |-> "", Properties |-> EmptyMap, Reload |-> FALSE,
     Commands |-> <<>>]

Target(name, type, config) == [Name |-> name, Type |-> type, Config |-> config]

\* no error
Ok == <<>>
\* fmt.Errorf("msg: %w", err): the message chain, outermost first
Wrap(msg, err) == msg \o err

NoFile == [exists |-> FALSE, bytes |-> <<>>]
File(bytes) == [exists |-> TRUE, bytes |-> bytes]

Ev(op, tgt, arg) == [op |-> op, tgt |-> tgt, arg |-> arg]

\* the formats file.New registers that the model gives a codec to
RegisteredFormats == {"ini"}

\* what ConfigurableParser.Configure leaves in the parser
USE_SPACING == <<"use_spacing">>
COMMENT_CHARS == <<"comment_chars">>
DELIMITER == <<"delimiter">>

Configure(parser, options) ==
    LET useSpacing ==
            IF USE_SPACING \in DOMAIN options /\ options[USE_SPACING].k = "bool"
            THEN options[USE_SPACING] = BoolV(TRUE)
            ELSE parser.useSpacing
        commentChars ==
            IF COMMENT_CHARS \in DOMAIN options /\ IsStr(options[COMMENT_CHARS])
               /\ Len(options[COMMENT_CHARS].s) > 0
            THEN Range(options[COMMENT_CHARS].s)
            ELSE parser.commentChars
        delimiter ==
            IF DELIMITER \in DOMAIN options /\ IsStr(options[DELIMITER])
               /\ Len(options[DELIMITER].s) > 0
            THEN options[DELIMITER].s[1]
            ELSE parser.delimiter
    IN  [useSpacing |-> useSpacing, commentChars |-> commentChars,
         delimiter |-> delimiter]

\* what an executor call returns and leaves behind: the error, the state
\* read, the files, the backups, the INI wrapper, and what it did
Outcome(err, state, files, backups, wr, evs) ==
    [err |-> err, state |-> state, fs |-> files, bk |-> backups, w |-> wr, evs |-> evs]

-----------------------------------------------------------------------------
(* utils.CreateBackup *)

\* the backup of path for the content of: SHA-256 is taken as injective, so
\* the content stands for the 32 hex characters in the backup's name
BackupExists(backups, path, of) == \E b \in backups : b.path = path /\ b.of = of

\* copyFails: io.Copy stops part-way, the created file keeps what was copied
CreateBackup(files, backups, path, copyFails) ==
    IF ~files[path].exists THEN [err |-> Ok, bk |-> backups]
    ELSE IF BackupExists(backups, path, files[path].bytes)
    THEN [err |-> Ok, bk |-> backups]
    ELSE IF copyFails
    THEN [err |-> <<"copy file">>,
          bk |-> backups \cup {[path |-> path, of |-> files[path].bytes,
                                bytes |-> <<>>]}]
    ELSE [err |-> Ok,
          bk |-> backups \cup {[path |-> path, of |-> files[path].bytes,
                                bytes |-> files[path].bytes]}]

-----------------------------------------------------------------------------
(* file.Executor *)

KnownUsers == {"root"}
OctalDigits == {"0", "1", "2", "3", "4", "5", "6", "7"}

FileValidate(t) ==
    IF (IF t.Config.Format = "" THEN "ini" ELSE t.Config.Format) \notin RegisteredFormats
    THEN <<"unsupported file format">>
    ELSE IF t.Config.Path = "" THEN <<"target path is empty">>
    ELSE Ok

\* parser.Unmarshal(data): the wrapper keeps the parsed lines
unmarshalInto(t, files, backups, configured, lines) ==
    Outcome(Ok, Unmarshal(lines), files, backups, [configured EXCEPT !.lines = lines],
            <<Ev("readfile", t.Name, t.Config.Path)>>)

\* readFails: os.ReadFile fails on the existing file
FileGetCurrentState(t, files, backups, wr, readFails) ==
    IF ~files[t.Config.Path].exists
    THEN Outcome(Ok, EmptyMap, files, backups, wr, <<>>)
    ELSE IF t.Config.Format = ""
    THEN Outcome(<<"file format is not specified">>, EmptyMap, files, backups, wr, <<>>)
    ELSE IF t.Config.Format \notin RegisteredFormats
    THEN Outcome(<<"get parser">>, EmptyMap, files, backups, wr, <<>>)
    ELSE IF readFails
    THEN Outcome(<<"read file">>, EmptyMap, files, backups,
                 [wr EXCEPT !.parser = Configure(wr.parser, t.Config.Options)], <<>>)
    ELSE unmarshalInto(t, files, backups,
                       [wr EXCEPT !.parser = Configure(wr.parser, t.Config.Options)],
                       Parse(Configure(wr.parser, t.Config.Options),
                             files[t.Config.Path].bytes))

setFileOwnership(config) ==
    IF config.Owner = "" /\ config.Group = "" THEN Ok
    ELSE IF config.Owner # "" /\ config.Owner \notin KnownUsers THEN <<"lookup user">>
    ELSE IF config.Group # "" /\ config.Group \notin KnownUsers THEN <<"lookup group">>
    ELSE Ok

\* strconv.ParseUint(mode, 8, 32) on a short mode string
setFilePermissions(config) ==
    IF config.Mode = <<>> THEN Ok
    ELSE IF \E i \in DOMAIN config.Mode : config.Mode[i] \notin OctalDigits
    THEN <<"invalid file mode">>
    ELSE Ok

\* Apply's backup step: CreateBackup when the target asks for one
backupStep(config, files, backups, env) ==
    IF config.Backup
    THEN CreateBackup(files, backups, config.Path, env.failAt = "backup")
    ELSE [err |-> Ok, bk |-> backups]

backupEvs(t, backups, made) ==
    IF made # backups THEN <<Ev("backup", t.Name, t.Config.Path)>> ELSE <<>>

\* Apply after os.WriteFile: ownership, then permissions
applyWritten(t, written, backups, wr, evs) ==
    IF setFileOwnership(t.Config) # Ok
    THEN Outcome(Wrap(<<"set ownership">>, setFileOwnership(t.Config)), EmptyMap, written,
                 backups, wr, evs)
    ELSE IF setFilePermissions(t.Config) # Ok
    THEN Outcome(Wrap(<<"set permissions">>, setFilePermissions(t.Config)), EmptyMap,
                 written, backups, wr, evs)
    ELSE Outcome(Ok, EmptyMap, written, backups, wr, evs)

\* Apply after GetCurrentState: DeepMerge, Marshal, os.WriteFile
applyCurrent(t, files, evs, current, env) ==
    IF current.err # Ok
    THEN Outcome(Wrap(<<"get current state">>, current.err), EmptyMap, files, current.bk,
                 current.w, evs)
    ELSE IF env.failAt = "write"
    THEN Outcome(<<"write file">>, EmptyMap, files, current.bk, current.w,
                 evs \o current.evs)
    ELSE applyWritten(t,
             [files EXCEPT ![t.Config.Path] =
                 File(Marshal(current.w, DeepMerge(current.state, t.Config.Content),
                              env.ord))],
             current.bk, current.w,
             evs \o current.evs \o <<Ev("writefile", t.Name, t.Config.Path)>>)

\* Apply after the backup step: os.MkdirAll, then GetCurrentState
applyBackedUp(t, files, backups, configured, backup, env) ==
    IF backup.err # Ok
    THEN Outcome(Wrap(<<"create backup">>, backup.err), EmptyMap, files, backup.bk,
                 configured, backupEvs(t, backups, backup.bk))
    ELSE IF env.failAt = "mkdir"
    THEN Outcome(<<"create directory">>, EmptyMap, files, backup.bk, configured,
                 backupEvs(t, backups, backup.bk))
    ELSE applyCurrent(t, files, backupEvs(t, backups, backup.bk),
                      FileGetCurrentState(t, files, backup.bk, configured,
                                          env.failAt = "read"),
                      env)

\* env.failAt: the step the system refuses; env.ord: the map range order
FileApply(t, diff, files, backups, wr, env) ==
    IF ~diff.isNil /\ IsEmpty(diff)
    THEN Outcome(Ok, EmptyMap, files, backups, wr, <<>>)
    ELSE IF (IF t.Config.Format = "" THEN "ini" ELSE t.Config.Format) \notin RegisteredFormats
    THEN Outcome(<<"get parser">>, EmptyMap, files, backups, wr, <<>>)
    ELSE applyBackedUp(t, files, backups,
                       [wr EXCEPT !.parser = Configure(wr.parser, t.Config.Options)],
                       backupStep(t.Config, files, backups, env), env)

-----------------------------------------------------------------------------
(* dconf.Executor *)

\* a Go nil-pointer dereference: the goroutine panics, nothing returns
Panic == <<"panic: nil pointer dereference">>

RAW == <<"_raw">>
STATUS == <<"_status">>

DconfValidate(t) ==
    IF t.Config.Schema = "" THEN <<"dconf schema is required">> ELSE Ok

\* cmdFails: `dconf dump` exits non-zero
DconfGetCurrentState(t, files, backups, wr, cmdFails) ==
    IF t.Config.Schema = ""
    THEN Outcome(<<"dconf schema not specified">>, EmptyMap, files, backups, wr, <<>>)
    ELSE IF cmdFails
    THEN Outcome(Ok, EmptyMap, files, backups, wr, <<Ev("cmdread", t.Name, "dconf dump")>>)
    ELSE Outcome(Ok, RAW :> Str(<<"dump">>), files, backups, wr,
                 <<Ev("cmdread", t.Name, "dconf dump")>>)

DconfApply(t, diff, files, backups, wr, env) ==
    LET settings == t.Config.Settings
        keys == SelectSeq(InOrder(DOMAIN diff.Changes, env.ord),
                          LAMBDA key : key \in DOMAIN settings)
        writes == [i \in 1..Len(keys) |-> Ev("cmd", t.Name, "dconf write")]
    IN
    IF ~diff.isNil /\ IsEmpty(diff)
    THEN Outcome(Ok, EmptyMap, files, backups, wr, <<>>)
    ELSE IF t.Config.Schema = ""
    THEN Outcome(<<"dconf schema not specified">>, EmptyMap, files, backups, wr, <<>>)
    ELSE IF diff.isNil
    THEN Outcome(Panic, EmptyMap, files, backups, wr, <<>>)
    ELSE IF env.failAt = "cmd" /\ Len(keys) > 0
    THEN Outcome(<<"set dconf key">>, EmptyMap, files, backups, wr, <<writes[1]>>)
    ELSE Outcome(Ok, EmptyMap, files, backups, wr, writes)

-----------------------------------------------------------------------------
(* systemd.Executor *)

SystemdValidate(t) ==
    IF t.Config.Unit = "" THEN <<"systemd unit is required">> ELSE Ok

\* cmdFails: `systemctl show` exits non-zero
SystemdGetCurrentState(t, files, backups, wr, cmdFails) ==
    IF t.Config.Unit = ""
    THEN Outcome(<<"systemd unit file not specified">>, EmptyMap, files, backups, wr, <<>>)
    ELSE IF cmdFails
    THEN Outcome(Ok, EmptyMap, files, backups, wr,
                 <<Ev("cmdread", t.Name, "systemctl show")>>)
    ELSE Outcome(Ok, STATUS :> Str(<<"show">>), files, backups, wr,
                 <<Ev("cmdread", t.Name, "systemctl show")>>)

updateUnitFile(unitFile, changes) == <<"unit file update not implemented">>

SystemdApply(t, diff, files, backups, wr, env) ==
    LET daemon == <<Ev("cmd", t.Name, "systemctl daemon-reload")>>
        reload == <<Ev("cmd", t.Name, "systemctl reload-or-restart")>>
        changed == DOMAIN diff.Changes # {}
        updated == updateUnitFile(t.Config.Unit, t.Config.Properties)
        ran == IF changed THEN daemon ELSE <<>>
    IN
    IF ~diff.isNil /\ IsEmpty(diff)
    THEN Outcome(Ok, EmptyMap, files, backups, wr, <<>>)
    ELSE IF t.Config.Unit = ""
    THEN Outcome(<<"systemd unit file not specified">>, EmptyMap, files, backups, wr, <<>>)
    ELSE IF diff.isNil
    THEN Outcome(Panic, EmptyMap, files, backups, wr, <<>>)
    ELSE IF changed /\ updated # Ok
    THEN Outcome(updated, EmptyMap, files, backups, wr, <<>>)
    ELSE IF changed /\ env.failAt = "daemon-reload"
    THEN Outcome(<<"reload systemd", "exit status 1">>, EmptyMap, files, backups, wr,
                 daemon)
    ELSE IF t.Config.Reload
    THEN Outcome(IF env.failAt = "cmd" THEN <<"exit status 1">> ELSE Ok, EmptyMap, files,
                 backups, wr, ran \o reload)
    ELSE Outcome(Ok, EmptyMap, files, backups, wr, ran)

-----------------------------------------------------------------------------
(* sed.Executor *)

CONTENT == <<"content">>
EXISTS == <<"exists">>
COMMANDS == <<"commands">>
PATH == <<"path">>

\* a command is <<"s", from, to>>, the substitution s/from/to/g over single
\* bytes; anything else does not compile
SedCompiles(commands) ==
    \A i \in DOMAIN commands : Len(commands[i]) = 3 /\ commands[i][1] = "s"

Substitute(command, line) ==
    [i \in DOMAIN line |-> IF line[i] = command[2] THEN command[3] ELSE line[i]]

RECURSIVE SedLine(_, _)
SedLine(commands, line) ==
    IF commands = <<>> THEN line
    ELSE SedLine(Tail(commands), Substitute(Head(commands), line))

\* the engine reads the file line by line and writes each line it produced
\* with a newline
SedRun(commands, bytes) ==
    LET lines == RawLines(bytes)
    IN  Join([i \in DOMAIN lines |-> SedLine(commands, lines[i])])

SedValidate(t) ==
    IF t.Config.Path = "" THEN <<"sed target path is required">>
    ELSE IF Len(t.Config.Commands) = 0 THEN <<"sed commands are required">>
    ELSE IF ~SedCompiles(t.Config.Commands) THEN <<"invalid sed commands">>
    ELSE Ok

SedGetCurrentState(t, files, backups, wr, readFails) ==
    IF t.Config.Path = ""
    THEN Outcome(<<"sed target path is required">>, EmptyMap, files, backups, wr, <<>>)
    ELSE IF ~files[t.Config.Path].exists
    THEN Outcome(Ok, (CONTENT :> Str(<<>>)) @@ (EXISTS :> BoolV(FALSE)), files, backups,
                 wr, <<>>)
    ELSE IF readFails
    THEN Outcome(<<"read file">>, EmptyMap, files, backups, wr, <<>>)
    ELSE Outcome(Ok, (CONTENT :> Str(files[t.Config.Path].bytes)) @@ (EXISTS :> BoolV(TRUE)),
                 files, backups, wr, <<Ev("readfile", t.Name, t.Config.Path)>>)

\* Apply after the backup step: open, compile, run, write
sedBackedUp(t, files, backups, wr, backup, env) ==
    IF backup.err # Ok
    THEN Outcome(Wrap(<<"create backup">>, backup.err), EmptyMap, files, backup.bk, wr,
                 backupEvs(t, backups, backup.bk))
    ELSE IF ~files[t.Config.Path].exists \/ env.failAt = "read"
    THEN Outcome(<<"open file">>, EmptyMap, files, backup.bk, wr,
                 backupEvs(t, backups, backup.bk))
    ELSE IF ~SedCompiles(t.Config.Commands)
    THEN Outcome(<<"create sed engine">>, EmptyMap, files, backup.bk, wr,
                 backupEvs(t, backups, backup.bk)
                     \o <<Ev("readfile", t.Name, t.Config.Path)>>)
    ELSE IF env.failAt = "write"
    THEN Outcome(<<"write processed content">>, EmptyMap, files, backup.bk, wr,
                 backupEvs(t, backups, backup.bk)
                     \o <<Ev("readfile", t.Name, t.Config.Path)>>)
    ELSE Outcome(Ok, EmptyMap,
                 [files EXCEPT ![t.Config.Path] =
                     File(SedRun(t.Config.Commands, files[t.Config.Path].bytes))],
                 backup.bk, wr,
                 backupEvs(t, backups, backup.bk)
                     \o <<Ev("readfile", t.Name, t.Config.Path),
                          Ev("writefile", t.Name, t.Config.Path)>>)

SedApply(t, diff, files, backups, wr, env) ==
    IF ~diff.isNil /\ IsEmpty(diff)
    THEN Outcome(Ok, EmptyMap, files, backups, wr, <<>>)
    ELSE IF t.Config.Path = ""
    THEN Outcome(<<"sed target path is required">>, EmptyMap, files, backups, wr, <<>>)
    ELSE IF Len(t.Config.Commands) = 0
    THEN Outcome(<<"sed commands are required">>, EmptyMap, files, backups, wr, <<>>)
    ELSE sedBackedUp(t, files, backups, wr, backupStep(t.Config, files, backups, env), env)

-----------------------------------------------------------------------------
(* features.Registry and the executors behind engine.Executor *)

RegisteredTypes == {TYPE_FILE, TYPE_DCONF, TYPE_SED, TYPE_SYSTEMD}

\* Registry.Executor
Executor(targetType) ==
    IF targetType \in RegisteredTypes THEN Ok ELSE <<"unknown target type">>

ExecutorValidate(t) ==
    CASE t.Type = TYPE_FILE -> FileValidate(t)
      [] t.Type = TYPE_DCONF -> DconfValidate(t)
      [] t.Type = TYPE_SYSTEMD -> SystemdValidate(t)
      [] t.Type = TYPE_SED -> SedValidate(t)

\* fails: the read of the file, or the command that reads the state, fails
ExecutorGetCurrentState(t, files, backups, wr, fails) ==
    CASE t.Type = TYPE_FILE -> FileGetCurrentState(t, files, backups, wr, fails)
      [] t.Type = TYPE_DCONF -> DconfGetCurrentState(t, files, backups, wr, fails)
      [] t.Type = TYPE_SYSTEMD -> SystemdGetCurrentState(t, files, backups, wr, fails)
      [] t.Type = TYPE_SED -> SedGetCurrentState(t, files, backups, wr, fails)

ExecutorApply(t, d, files, backups, wr, env) ==
    CASE t.Type = TYPE_FILE -> FileApply(t, d, files, backups, wr, env)
      [] t.Type = TYPE_DCONF -> DconfApply(t, d, files, backups, wr, env)
      [] t.Type = TYPE_SYSTEMD -> SystemdApply(t, d, files, backups, wr, env)
      [] t.Type = TYPE_SED -> SedApply(t, d, files, backups, wr, env)

\* the steps of Apply the system can refuse, per kind of target
FailPoints(t) ==
    CASE t.Type = TYPE_FILE -> {"none", "backup", "mkdir", "read", "write"}
      [] t.Type = TYPE_DCONF -> {"none", "cmd"}
      [] t.Type = TYPE_SYSTEMD -> {"none", "daemon-reload", "cmd"}
      [] t.Type = TYPE_SED -> {"none", "backup", "read", "write"}

-----------------------------------------------------------------------------
(* reconciler: ReconciliationEngine *)

getTargetContent(t) ==
    CASE t.Type = TYPE_FILE -> t.Config.Content
      [] t.Type = TYPE_DCONF -> t.Config.Settings
      [] t.Type = TYPE_SYSTEMD -> t.Config.Properties
      [] t.Type = TYPE_SED -> (COMMANDS :> ListV(t.Config.Commands))
                               @@ (PATH :> Str(<<t.Config.Path>>))
      [] OTHER -> EmptyMap

\* ReconciliationEngine.Validate: the first error over the targets in order
RECURSIVE Validate(_)
Validate(ts) ==
    IF ts = <<>> THEN Ok
    ELSE LET t == Head(ts)
         IN  IF Executor(t.Type) # Ok
             THEN Wrap(<<"no executor found for target type", t.Type>>, Executor(t.Type))
             ELSE IF ExecutorValidate(t) # Ok
             THEN Wrap(<<"validation failed for target", t.Name>>, ExecutorValidate(t))
             ELSE Validate(Tail(ts))

\* reconcileTarget without its dry-run branch
C6_ShouldApplyIgnoringDryRun(dryRun, d) == ~IsEmpty(d)

\* reconcileTarget applies a diff when it is not empty and the run is not dry
ShouldApply(dryRun, d) == ~IsEmpty(d) /\ ~dryRun

\* Reconcile noting the error and going on with the next target
C8_ReconcileContinuesAlways(e) == TRUE

\* Reconcile goes on to the next target only after a target without error
ReconcileContinues(e) == e = Ok

-----------------------------------------------------------------------------
(* reconciler: HookExecutor *)

\* a script is a sequence of words and white space; the commands of the
\* model's shell are true, false and touch (which creates HookPath)
HookPath == "p1"

IsSpace(word) == word \in {SP, TAB, LF, CR}

RECURSIVE TrimLeft(_)
TrimLeft(script) ==
    IF script # <<>> /\ IsSpace(Head(script)) THEN TrimLeft(Tail(script)) ELSE script

RECURSIVE TrimRight(_)
TrimRight(script) ==
    IF script # <<>> /\ IsSpace(script[Len(script)])
    THEN TrimRight(SubSeq(script, 1, Len(script) - 1)) ELSE script

TrimSpace(script) == TrimRight(TrimLeft(script))

\* the exit status of a script is that of its last command
ScriptFails(script) == script[Len(script)] = "false"

\* the files after the script ran
ScriptFiles(script, files) ==
    IF \E i \in DOMAIN script : script[i] = "touch"
    THEN [files EXCEPT ![HookPath] = IF files[HookPath].exists THEN @ ELSE File(<<>>)]
    ELSE files

\* executeScript: what it returns, the files it leaves, whether it ran
executeScript(dryRun, script, identifier, files) ==
    LET trimmed == TrimSpace(script)
    IN  IF trimmed = <<>> THEN [err |-> Ok, fs |-> files, evs |-> <<>>]
        ELSE IF dryRun THEN [err |-> Ok, fs |-> files, evs |-> <<>>]
        ELSE [err |-> IF ScriptFails(trimmed) THEN <<"command execution failed">> ELSE Ok,
              fs |-> ScriptFiles(trimmed, files),
              evs |-> <<Ev("hook", identifier, "run")>>]

-----------------------------------------------------------------------------
(* cmd: InitializeCommand and ApplyCmd.Run *)

\* filterTargets with the kept targets in reverse order
C10_filterTargetsReversed(allTargets, currentTargets) ==
    LET kept == SelectSeq(allTargets,
                          LAMBDA t : Len(currentTargets) = 0
                                     \/ t.Name \in Range(currentTargets))
    IN  [i \in 1..Len(kept) |-> kept[Len(kept) + 1 - i]]

filterTargets(allTargets, currentTargets) ==
    IF Len(currentTargets) = 0 THEN allTargets
    ELSE SelectSeq(allTargets, LAMBDA t : t.Name \in Range(currentTargets))

\* the --backup override of ApplyCmd: set on file targets only
backupOverride(ts, backup) ==
    [i \in DOMAIN ts |->
        IF backup /\ ts[i].Type = TYPE_FILE
        THEN [ts[i] EXCEPT !.Config.Backup = TRUE] ELSE ts[i]]

\* no Marshal of the caller of the wrapper yet
NoRound == [data |-> EmptyMap, output |-> <<>>]

\* no configuration is being loaded
NoLoad == [state |-> "idle"]

\* no line operation was called
NoCall == [name |-> "none"]

NoLast == [tgt |-> "", before |-> NoFile, after |-> NoFile, lines |-> <<>>,
           parser |-> NewRelaxedINIParser, content |-> EmptyMap]

\* the engine variables of a specification that does not run the engine
EngineIdle ==
    /\ cli = [DryRun |-> FALSE, Force |-> FALSE, Backup |-> FALSE, Targets |-> <<>>]
    /\ sysconf = [Targets |-> <<>>, Hooks |-> [PreApply |-> <<>>, PostApply |-> <<>>]]
    /\ targets = <<>>
    /\ fs = <<>>
    /\ fs0 = <<>>
    /\ bk = {}
    /\ pc = "idle"
    /\ hk = 1
    /\ idx = 1
    /\ phase = "read"
    /\ cur = EmptyMap
    /\ curDiff = NilDiff
    /\ log = <<>>
    /\ exitErr = Ok
    /\ run = 1
    /\ last = NoLast
    /\ snap = <<>>

IniIdle ==
    /\ input = <<>>
    /\ data = EmptyMap
    /\ output = <<>>
    /\ edits = <<>>
    /\ ipc = "idle"
    /\ round1 = NoRound
    /\ flat = EmptyMap
    /\ ld = NoLoad
    /\ call = NoCall

\* ApplyCmd.Run with Reconcile ahead of the pre_apply hooks
C9_NextStageReconcileFirst(stage) ==
    CASE stage = "init" -> "validate"
      [] stage = "validate" -> "reconcile"
      [] stage = "reconcile" -> "pre"
      [] stage = "pre" -> "post"
      [] stage = "post" -> "done"

\* the order of ApplyCmd.Run: validate, pre_apply hooks, Reconcile,
\* post_apply hooks
NextStage(stage) ==
    CASE stage = "init" -> "validate"
      [] stage = "validate" -> "pre"
      [] stage = "pre" -> "reconcile"
      [] stage = "reconcile" -> "post"
      [] stage = "post" -> "done"

\* the command enters the next stage, at its first hook or target
Enter(stage) ==
    /\ pc' = stage
    /\ hk' = 1
    /\ idx' = 1
    /\ phase' = "read"
    /\ snap' = fs

\* the command returns the error e
Fail(e) ==
    /\ pc' = "failed"
    /\ exitErr' = e
    /\ UNCHANGED <<hk, idx, phase, snap>>

InitializeCommand ==
    /\ pc = "init"
    /\ LET selected == backupOverride(filterTargets(sysconf.Targets, cli.Targets),
                                      cli.Backup)
       IN  /\ targets' = selected
           /\ IF Len(selected) = 0
              THEN Fail(IF Len(cli.Targets) > 0
                        THEN <<"No targets found matching any of">>
                        ELSE <<"No targets configured">>)
              ELSE Enter(NextStage(pc)) /\ exitErr' = exitErr
    /\ UNCHANGED <<cli, sysconf, fs, fs0, bk, cur, curDiff, log, run, last, w>>
    /\ UNCHANGED iniVars

\* ApplyCmd.Run going on after a failed validation whether or not --force is set
C11_RunValidateForced ==
    /\ pc = "validate"
    /\ Enter(NextStage(pc)) /\ exitErr' = exitErr
    /\ UNCHANGED <<cli, sysconf, targets, fs, fs0, bk, cur, curDiff, log, run, last, w>>
    /\ UNCHANGED iniVars

RunValidate ==
    /\ pc = "validate"
    /\ LET e == Validate(targets)
       IN  IF e # Ok /\ ~cli.Force
           THEN Fail(Wrap(<<"validation failed">>, e))
           ELSE Enter(NextStage(pc)) /\ exitErr' = exitErr
    /\ UNCHANGED <<cli, sysconf, targets, fs, fs0, bk, cur, curDiff, log, run, last, w>>
    /\ UNCHANGED iniVars

\* one script of ExecuteHooks(hooks, hookType)
RunHook(stage, hooks, hookType) ==
    /\ pc = stage
    /\ hk <= Len(hooks)
    /\ \E r \in {executeScript(cli.DryRun, hooks[hk], hookType, fs)} :
           /\ fs' = r.fs
           /\ log' = log \o r.evs
           /\ IF r.err # Ok
              THEN Fail(Wrap(<<hookType, "hooks failed">>, r.err))
              ELSE /\ hk' = hk + 1
                   /\ UNCHANGED <<pc, exitErr, idx, phase, snap>>
    /\ UNCHANGED <<cli, sysconf, targets, fs0, bk, cur, curDiff, run, last, w>>
    /\ UNCHANGED iniVars

\* ExecuteHooks returned without error, or there was no hook to run
HooksDone(stage, hooks) ==
    /\ pc = stage
    /\ hk > Len(hooks)
    /\ Enter(NextStage(pc))
    /\ UNCHANGED <<cli, sysconf, targets, fs, fs0, bk, cur, curDiff, log, exitErr, run,
                   last, w>>
    /\ UNCHANGED iniVars

PreHook == RunHook("pre", sysconf.Hooks.PreApply, "pre_apply")
PreHooksDone == HooksDone("pre", sysconf.Hooks.PreApply)
PostHook == RunHook("post", sysconf.Hooks.PostApply, "post_apply")
PostHooksDone == HooksDone("post", sysconf.Hooks.PostApply)

\* the error Reconcile returns for target t
ReconcileError(t, step, e) ==
    Wrap(<<"reconciliation failed", "reconcile target", t.Name, step>>, e)

\* reconcileTarget up to the current state: the executor lookup and
\* GetCurrentState
ReadState ==
    /\ pc = "reconcile"
    /\ idx <= Len(targets)
    /\ phase = "read"
    /\ LET t == targets[idx]
       IN  IF Executor(t.Type) # Ok
           THEN /\ exitErr' = ReconcileError(t, "no executor found for target type",
                                             Executor(t.Type))
                /\ pc' = "failed"
                /\ UNCHANGED <<fs, bk, w, cur, log, phase>>
           ELSE \E fails \in BOOLEAN :
                \E r \in {ExecutorGetCurrentState(t, fs, bk, w, fails)} :
                       /\ log' = log \o <<Ev("read", t.Name, "")>> \o r.evs
                       /\ w' = r.w
                       /\ cur' = r.state
                       /\ exitErr' = IF r.err # Ok
                                     THEN ReconcileError(t, "get current system state",
                                                         r.err)
                                     ELSE exitErr
                       /\ pc' = IF ReconcileContinues(r.err) THEN pc ELSE "failed"
                       /\ phase' = IF r.err = Ok THEN "diff" ELSE "next"
                       /\ UNCHANGED <<fs, bk>>
    /\ UNCHANGED <<cli, sysconf, targets, fs0, hk, idx, curDiff, run, last, snap>>
    /\ UNCHANGED iniVars

\* reconcileTarget: ComputeDiffWithCurrent, which returns no error
Diff ==
    /\ pc = "reconcile"
    /\ idx <= Len(targets)
    /\ phase = "diff"
    /\ LET t == targets[idx]
           desired == getTargetContent(t)
       IN  \E ord \in Perms(NamesOf(desired) \cup NamesOf(cur)) :
           \E ordDesired \in Perms(NamesOf(desired)) :
               curDiff' = ComputeDiffWithCurrent(t.Name, desired, cur, ord, ordDesired)
    /\ log' = Append(log, Ev("diff", targets[idx].Name, ""))
    /\ phase' = "apply"
    /\ UNCHANGED <<cli, sysconf, targets, fs, fs0, bk, pc, hk, idx, cur, exitErr, run,
                   last, snap, w>>
    /\ UNCHANGED iniVars

\* what the file executor's Apply wrote, for the file targets
LastWrite(t, before, r) ==
    IF t.Type = TYPE_FILE
       /\ \E i \in DOMAIN r.evs : r.evs[i].op = "writefile"
    THEN [tgt |-> t.Name, before |-> before, after |-> r.fs[t.Config.Path],
          lines |-> r.w.lines, parser |-> r.w.parser, content |-> t.Config.Content]
    ELSE last

\* reconcileTarget from the diff on: Apply unless the diff is empty or the
\* run is dry
ApplyStep ==
    /\ pc = "reconcile"
    /\ idx <= Len(targets)
    /\ phase = "apply"
    /\ LET t == targets[idx]
       IN  IF ShouldApply(cli.DryRun, curDiff)
           THEN \E failAt \in FailPoints(t) :
                \E ord \in Perms(NamesOf(DeepMerge(cur, getTargetContent(t)))) :
                \E r \in {ExecutorApply(t, curDiff, fs, bk, w,
                                       [failAt |-> failAt, ord |-> ord])} :
                       /\ log' = log \o <<Ev("apply", t.Name, "")>> \o r.evs
                       /\ fs' = r.fs
                       /\ bk' = r.bk
                       /\ w' = r.w
                       /\ last' = LastWrite(t, fs[t.Config.Path], r)
                       /\ exitErr' = IF r.err # Ok
                                     THEN ReconcileError(t, "apply changes", r.err)
                                     ELSE exitErr
                       /\ pc' = IF ReconcileContinues(r.err) THEN pc ELSE "failed"
                       /\ phase' = "next"
           ELSE /\ phase' = "next"
                /\ UNCHANGED <<log, fs, bk, w, last, exitErr, pc>>
    /\ UNCHANGED <<cli, sysconf, targets, fs0, hk, idx, cur, curDiff, run, snap>>
    /\ UNCHANGED iniVars

\* Reconcile's loop goes to the next target
NextTarget ==
    /\ pc = "reconcile"
    /\ idx <= Len(targets)
    /\ phase = "next"
    /\ idx' = idx + 1
    /\ phase' = "read"
    /\ snap' = fs
    /\ UNCHANGED <<cli, sysconf, targets, fs, fs0, bk, pc, hk, cur, curDiff, log, exitErr,
                   run, last, w>>
    /\ UNCHANGED iniVars

\* Reconcile returned nil
ReconcileDone ==
    /\ pc = "reconcile"
    /\ idx > Len(targets)
    /\ Enter(NextStage(pc))
    /\ UNCHANGED <<cli, sysconf, targets, fs, fs0, bk, cur, curDiff, log, exitErr, run,
                   last, w>>
    /\ UNCHANGED iniVars

-----------------------------------------------------------------------------
(* Spec: one run of `confedit apply` over a loaded configuration of up to  *)
(* MaxTargets targets of the four kinds, with hooks, --dry-run, --force,   *)
(* --backup and a target filter.                                           *)

\* the most targets of a loaded configuration
MaxTargets == 3

Paths == {"p1", "p2"}

\* "[s]\na=1\n"
SampleFile == File(Join(<< <<"[", "s", "]">>, <<"a", "=", "1">> >>))

SectionOf(section, key, value) == section :> MapV(key :> value)

FileTarget(name, path, content) ==
    Target(name, TYPE_FILE,
           [BaseConfig EXCEPT !.Path = path, !.Format = "ini", !.Content = content])

TargetPool ==
    { FileTarget("f1", "p1", SectionOf(<<"s">>, <<"a">>, Str(<<"9">>))),
      FileTarget("f2", "p2", SectionOf(<<"s">>, <<"a">>, Str(<<"1">>))),
      Target("d1", TYPE_DCONF,
             [BaseConfig EXCEPT !.Schema = "/org/x", !.Settings = <<"k">> :> Str(<<"v">>)]),
      Target("d0", TYPE_DCONF, BaseConfig),
      Target("u1", TYPE_SYSTEMD,
             [BaseConfig EXCEPT !.Unit = "u.service", !.Reload = TRUE,
                                !.Properties = <<"P">> :> Str(<<"1">>)]),
      Target("s1", TYPE_SED,
             [BaseConfig EXCEPT !.Path = "p1", !.Backup = TRUE,
                                !.Commands = << <<"s", "1", "2">> >>]) }

\* the target lists of a loaded configuration: no name twice
TargetLists(pool, n) ==
    {ts \in SeqsUpTo(pool, n) :
        Len(ts) > 0 /\ \A i, j \in DOMAIN ts : ts[i].Name = ts[j].Name => i = j}

\* the hooks of the configuration: none; scripts that succeed; a failing
\* pre_apply script after one that ran; a failing post_apply script
HookPool ==
    { [PreApply |-> <<>>, PostApply |-> <<>>],
      [PreApply |-> << <<SP, LF>>, <<"touch", LF>> >>, PostApply |-> << <<"true">> >>],
      [PreApply |-> << <<"true">>, <<SP, "false", LF>> >>, PostApply |-> << <<"true">> >>],
      [PreApply |-> << <<"true">> >>, PostApply |-> << <<"false">>, <<"true">> >>] }

\* the target names given on the command line
FilterPool == { <<>>, <<"d1", "f1">>, <<"zz">> }

Init ==
    /\ cli \in [DryRun : BOOLEAN, Force : BOOLEAN, Backup : BOOLEAN, Targets : FilterPool]
    /\ sysconf \in [Targets : TargetLists(TargetPool, MaxTargets), Hooks : HookPool]
    /\ targets = <<>>
    /\ fs \in {[p \in Paths |-> IF p = "p1" THEN f ELSE SampleFile] : f \in {NoFile, SampleFile}}
    /\ fs0 = fs
    /\ snap = fs
    /\ bk = {}
    /\ w = NewINIWrapper
    /\ pc = "init"
    /\ hk = 1
    /\ idx = 1
    /\ phase = "read"
    /\ cur = EmptyMap
    /\ curDiff = NilDiff
    /\ log = <<>>
    /\ exitErr = Ok
    /\ run = 1
    /\ last = NoLast
    /\ IniIdle

Next ==
    \/ InitializeCommand
    \/ RunValidate
    \/ PreHook
    \/ PreHooksDone
    \/ ReadState
    \/ Diff
    \/ ApplyStep
    \/ NextTarget
    \/ ReconcileDone
    \/ PostHook
    \/ PostHooksDone

Spec == Init /\ [][Next]_vars

-----------------------------------------------------------------------------
(* What a run did, read from log *)

\* the events of executor operations: every event but a hook script's
TargetEvents == SelectSeq(log, LAMBDA e : e.op # "hook")

\* the calls the engine made to executors
EngineEvents == SelectSeq(log, LAMBDA e : e.op \in {"read", "diff", "apply"})

\* the position of the target called name in the selected list
IndexOf(name) == CHOOSE j \in DOMAIN targets : targets[j].Name = name

\* the position of the target called name in the loaded list
LoadedIndexOf(name) == CHOOSE j \in DOMAIN sysconf.Targets : sysconf.Targets[j].Name = name

HookRuns(hookType) == Len(SelectSeq(log, LAMBDA e : e.op = "hook" /\ e.tgt = hookType))

\* the scripts of hooks that executeScript does not skip as empty
Runnable(hooks) == Cardinality({i \in DOMAIN hooks : TrimSpace(hooks[i]) # <<>>})

\* Reconcile returned an error
ReconcileFailed == exitErr # Ok /\ exitErr[1] = "reconciliation failed"

-----------------------------------------------------------------------------
(* C6 *)

\* C6: with dry-run enabled the engine never calls an executor's Apply, no
\* file is written, no backup made, no command other than a state read is
\* run, and no hook script is executed.
C6_DryRunOnlyReads ==
    cli.DryRun =>
        /\ \A i \in DOMAIN log : log[i].op \in {"read", "diff", "readfile", "cmdread"}
        /\ fs = fs0
        /\ bk = {}

\* a dry run that computed a diff with changes, with hook scripts configured
C6_Witness ==
    /\ cli.DryRun
    /\ pc = "done"
    /\ \E i \in DOMAIN log : log[i].op = "diff"
    /\ ~curDiff.isNil /\ ~IsEmpty(curDiff)
    /\ Runnable(sysconf.Hooks.PreApply) > 0
    /\ Runnable(sysconf.Hooks.PostApply) > 0

-----------------------------------------------------------------------------
(* C8 *)

\* C8: when the lookup, the state read or Apply fails for target k,
\* Reconcile returns at once with an error naming target k, no executor
\* operation was invoked for a target after k, and the files of the targets
\* before k are as those targets left them.
C8_FailFast ==
    ReconcileFailed =>
        /\ pc = "failed"
        /\ idx \in DOMAIN targets
        /\ exitErr[2] = "reconcile target" /\ exitErr[3] = targets[idx].Name
        /\ \A i \in DOMAIN TargetEvents :
               \E j \in 1..idx : targets[j].Name = TargetEvents[i].tgt
        /\ \A p \in DOMAIN fs : p # targets[idx].Config.Path => fs[p] = snap[p]

\* the second of three targets failed after the first one wrote its file
C8_Witness ==
    /\ ReconcileFailed
    /\ pc = "failed"
    /\ idx = 2
    /\ Len(targets) = 3
    /\ \E i \in DOMAIN log : log[i].op = "writefile" /\ log[i].tgt = targets[1].Name
    /\ fs[targets[1].Config.Path] # fs0[targets[1].Config.Path]
    /\ targets[2].Config.Path # targets[1].Config.Path

-----------------------------------------------------------------------------
(* C9 *)

\* C9: every pre_apply hook has finished before the first target is read; a
\* failed pre_apply hook means no target is read or changed; post_apply
\* hooks start only after every selected target was reconciled without
\* error, and never after Reconcile returned an error.
C9_HooksAroundReconcile ==
    /\ Len(TargetEvents) > 0 =>
           /\ pc # "pre"
           /\ HookRuns("pre_apply") =
                  (IF cli.DryRun THEN 0 ELSE Runnable(sysconf.Hooks.PreApply))
           /\ \A i, j \in DOMAIN log :
                  (i < j /\ log[i].op # "hook") => log[j].tgt # "pre_apply"
    /\ (exitErr # Ok /\ exitErr[1] = "pre_apply") => Len(TargetEvents) = 0
    /\ (pc = "post" \/ HookRuns("post_apply") > 0) =>
           /\ \A j \in DOMAIN targets :
                  \E i \in DOMAIN log : log[i].op = "diff" /\ log[i].tgt = targets[j].Name
           /\ exitErr = Ok \/ exitErr[1] = "post_apply"
           /\ \A i, j \in DOMAIN log :
                  (i < j /\ log[i].tgt = "post_apply") => log[j].op = "hook"
    /\ ReconcileFailed => HookRuns("post_apply") = 0

\* a run that executed a pre_apply script, applied a target and executed a
\* post_apply script
C9_Witness ==
    /\ pc = "done"
    /\ HookRuns("pre_apply") > 0
    /\ HookRuns("post_apply") > 0
    /\ \E i \in DOMAIN log : log[i].op = "apply"

-----------------------------------------------------------------------------
(* C10 *)

\* C10: the selected targets keep the relative order of the loaded list and
\* are reconciled one at a time in that order: per target the state read
\* comes before the diff and the diff before Apply, and nothing is done for
\* target k+1 before Apply of target k has returned.
C10_InOrder ==
    /\ \A i \in DOMAIN targets :
           \E j \in DOMAIN sysconf.Targets : sysconf.Targets[j].Name = targets[i].Name
    /\ \A i, j \in DOMAIN targets :
           i < j => LoadedIndexOf(targets[i].Name) < LoadedIndexOf(targets[j].Name)
    /\ \A i \in 1..(Len(TargetEvents) - 1) :
           IndexOf(TargetEvents[i].tgt) <= IndexOf(TargetEvents[i + 1].tgt)
    /\ Len(EngineEvents) > 0 =>
           EngineEvents[1] = Ev("read", targets[1].Name, "")
    /\ \A i \in 1..(Len(EngineEvents) - 1) :
           LET a == EngineEvents[i]
               b == EngineEvents[i + 1]
           IN  IF a.tgt = b.tgt
               THEN <<a.op, b.op>> \in {<<"read", "diff">>, <<"diff", "apply">>}
               ELSE /\ IndexOf(b.tgt) = IndexOf(a.tgt) + 1
                    /\ b.op = "read"
                    /\ a.op \in {"diff", "apply"}

\* a run over two targets picked by the command line out of three loaded
\* ones, the first of them applied
C10_Witness ==
    /\ pc = "done"
    /\ Len(targets) = 2
    /\ Len(sysconf.Targets) = 3
    /\ sysconf.Targets[2].Name \notin {targets[1].Name, targets[2].Name}
    /\ \E i \in DOMAIN log : log[i].op = "apply" /\ log[i].tgt = targets[1].Name
    /\ \E i \in DOMAIN log : log[i].op = "read" /\ log[i].tgt = targets[2].Name

-----------------------------------------------------------------------------
(* C11 *)

\* the command is past its validation step with a selected target that
\* Validate refuses
ValidationFailed ==
    /\ pc \notin {"init", "validate"}
    /\ targets # <<>>
    /\ Validate(targets) # Ok

\* C11: when Validate fails for a selected target and --force is not set,
\* the command returns the validation error before any hook ran and before
\* any target was read or changed; with --force the command does not return
\* the validation error and goes on to the hooks and the reconciliation.
C11_ValidateFatalUnlessForce ==
    ValidationFailed =>
        IF cli.Force
        THEN ~(exitErr # Ok /\ exitErr[1] = "validation failed")
        ELSE /\ pc = "failed"
             /\ exitErr # Ok /\ exitErr[1] = "validation failed"
             /\ log = <<>>
             /\ fs = fs0
             /\ bk = {}

\* a forced run over a target list Validate refuses: a pre_apply script
\* ran and a target was applied
C11_Witness ==
    /\ ValidationFailed
    /\ cli.Force
    /\ HookRuns("pre_apply") > 0
    /\ \E i \in DOMAIN log : log[i].op = "apply"

-----------------------------------------------------------------------------
(* SpecFile: `confedit apply` run up to MaxRuns times in a row over INI    *)
(* file targets, without hooks and without --dry-run; nothing but the      *)
(* command changes the files between the runs.                             *)

\* the most file targets of the configuration
MaxFileTargets == 2
\* the most runs of the command
MaxRuns == 2

\* the desired contents: a string under a section, under the root section,
\* a top-level root key, a deleted marker, a commented wrapper, a new key
FilePool ==
    { FileTarget("fa", "p1", SectionOf(<<"s">>, <<"a">>, Str(<<"9">>))),
      FileTarget("fb", "p1", SectionOf(<<>>, <<"a">>, Str(<<"9">>))),
      FileTarget("fc", "p1", <<"a">> :> Str(<<"9">>)),
      FileTarget("fd", "p1", SectionOf(<<"s">>, <<"a">>, DeletedV)),
      FileTarget("fe", "p1", SectionOf(<<"s">>, <<"a">>, CommentedV(<<"9">>))),
      FileTarget("ff", "p1", SectionOf(<<"s">>, <<"c">>, Str(<<"9">>))),
      FileTarget("fg", "p2", SectionOf(<<"t">>, <<"b">>, Str(<<"2">>))) }

\* the files p1 can be: missing; "[s]\na=1\n"; "a=1\na=2\n"; and
\* "# c\n\n[s]\na = 1\nb=2\n"
FileContents ==
    { NoFile,
      SampleFile,
      File(Join(<< <<"a", "=", "1">>, <<"a", "=", "2">> >>)),
      File(Join(<< <<"#", SP, "c">>, <<>>, <<"[", "s", "]">>,
                   <<"a", SP, "=", SP, "1">>, <<"b", "=", "2">> >>)) }

InitFile ==
    /\ cli = [DryRun |-> FALSE, Force |-> FALSE, Backup |-> FALSE, Targets |-> <<>>]
    /\ sysconf \in [Targets : TargetLists(FilePool, MaxFileTargets),
                    Hooks : {[PreApply |-> <<>>, PostApply |-> <<>>]}]
    /\ targets = <<>>
    /\ fs \in {[p \in Paths |-> IF p = "p1" THEN f ELSE NoFile] : f \in FileContents}
    /\ fs0 = fs
    /\ snap = fs
    /\ bk = {}
    /\ w = NewINIWrapper
    /\ pc = "init"
    /\ hk = 1
    /\ idx = 1
    /\ phase = "read"
    /\ cur = EmptyMap
    /\ curDiff = NilDiff
    /\ log = <<>>
    /\ exitErr = Ok
    /\ run = 1
    /\ last = NoLast
    /\ IniIdle

\* the command is started again, a new process, after a run without error
Rerun ==
    /\ pc = "done"
    /\ run < MaxRuns
    /\ run' = run + 1
    /\ pc' = "init"
    /\ w' = NewINIWrapper
    /\ targets' = <<>>
    /\ fs0' = fs
    /\ snap' = fs
    /\ hk' = 1
    /\ idx' = 1
    /\ phase' = "read"
    /\ cur' = EmptyMap
    /\ curDiff' = NilDiff
    /\ log' = <<>>
    /\ last' = NoLast
    /\ UNCHANGED <<cli, sysconf, fs, bk, exitErr>>
    /\ UNCHANGED iniVars

NextFile ==
    \/ InitializeCommand
    \/ RunValidate
    \/ PreHooksDone
    \/ ReadState
    \/ Diff
    \/ ApplyStep
    \/ NextTarget
    \/ ReconcileDone
    \/ PostHooksDone
    \/ Rerun

SpecFile == InitFile /\ [][NextFile]_vars

-----------------------------------------------------------------------------
(* C2 *)

\* (section, key) is named in the desired content
Named(content, section, key) ==
    \/ section \in DOMAIN content /\ IsMap(content[section])
           /\ key \in DOMAIN content[section].m
    \/ section = <<>> /\ key \in DOMAIN content /\ ~IsMap(content[key])

\* the lines of the file, as bytes, that are not active key lines of a key
\* the desired content names
UnmanagedLines(bytes, parser, content) ==
    LET raw == RawLines(bytes)
        lines == Parse(parser, bytes)
    IN  DropAt(raw, 1,
               {i \in DOMAIN lines :
                   IsActiveKey(lines[i])
                       /\ Named(content, lines[i].Section, lines[i].Key)})

\* xs is ys with some elements left out
RECURSIVE IsSubseq(_, _)
IsSubseq(xs, ys) ==
    IF xs = <<>> THEN TRUE
    ELSE IF ys = <<>> THEN FALSE
    ELSE IF Head(xs) = Head(ys) THEN IsSubseq(Tail(xs), Tail(ys))
    ELSE IsSubseq(xs, Tail(ys))

\* C2: when the file executor applies an INI target to an existing file,
\* every line of the old file that is not an active key line of a key the
\* desired content names is written back unchanged and in the same order.
C2_UnmanagedLinesKept ==
    (last.tgt # "" /\ last.before.exists) =>
        IsSubseq(UnmanagedLines(last.before.bytes, last.parser, last.content),
                 RawLines(last.after.bytes))

-----------------------------------------------------------------------------
(* C4 *)

\* C4: after a run without error over one INI file target, the next run
\* computes an empty diff for the target and does not call Apply.
C4_SecondRunEmpty ==
    (run > 1 /\ Len(sysconf.Targets) = 1) =>
        /\ (pc = "reconcile" /\ phase \in {"apply", "next"}) => IsEmpty(curDiff)
        /\ \A i \in DOMAIN log : log[i].op # "apply"

-----------------------------------------------------------------------------
(* C5 *)

\* C5: whenever the file executor marshals a target, the wrapper's cached
\* lines are the lines parsed from that target's file, none when the file
\* does not exist.
C5_CachedLinesOwn ==
    last.tgt # "" =>
        last.lines = (IF last.before.exists
                      THEN Parse(last.parser, last.before.bytes)
                      ELSE <<>>)

-----------------------------------------------------------------------------
(* SpecExec: a caller of one executor, as the executors' tests are: up to  *)
(* MaxCalls calls of Validate, GetCurrentState and Apply on one target,    *)
(* Apply with a nil diff, an empty diff or the diff of the state read.     *)

\* the most executor calls of the caller
MaxCalls == 2

EmptyDiff == ConfigDiff(EmptyMap, EmptyMap, <<>>, EmptyMap)

InitExec ==
    /\ cli = [DryRun |-> FALSE, Force |-> FALSE, Backup |-> FALSE, Targets |-> <<>>]
    /\ sysconf \in [Targets : TargetLists(TargetPool, 1),
                    Hooks : {[PreApply |-> <<>>, PostApply |-> <<>>]}]
    /\ targets = sysconf.Targets
    /\ fs \in {[p \in Paths |-> IF p = "p1" THEN f ELSE SampleFile] : f \in {NoFile, SampleFile}}
    /\ fs0 = fs
    /\ snap = fs
    /\ bk = {}
    /\ w = NewINIWrapper
    /\ pc = "call"
    /\ hk = 1
    /\ idx = 1
    /\ phase = "none"
    /\ cur = EmptyMap
    /\ curDiff = NilDiff
    /\ log = <<>>
    /\ exitErr = Ok
    /\ run = 1
    /\ last = NoLast
    /\ IniIdle

\* the caller is about to make a call; log, exitErr and snap are those of
\* the call it makes
Calling == pc \in {"call", "returned"} /\ hk <= MaxCalls

CallValidate ==
    /\ Calling
    /\ exitErr' = ExecutorValidate(targets[1])
    /\ pc' = "returned"
    /\ phase' = "validate"
    /\ hk' = hk + 1
    /\ log' = <<>>
    /\ snap' = fs
    /\ UNCHANGED <<cli, sysconf, targets, fs, fs0, bk, idx, cur, curDiff, run, last, w>>
    /\ UNCHANGED iniVars

CallGetCurrentState ==
    /\ Calling
    /\ \E fails \in BOOLEAN :
       \E r \in {ExecutorGetCurrentState(targets[1], fs, bk, w, fails)} :
           /\ exitErr' = r.err
           /\ cur' = r.state
           /\ w' = r.w
           /\ log' = r.evs
    /\ pc' = "returned"
    /\ phase' = "read"
    /\ hk' = hk + 1
    /\ snap' = fs
    /\ UNCHANGED <<cli, sysconf, targets, fs, fs0, bk, idx, curDiff, run, last>>
    /\ UNCHANGED iniVars

\* Apply(target, d)
CallApply(d) ==
    /\ Calling
    /\ \E failAt \in FailPoints(targets[1]) :
       \E ord \in Perms(NamesOf(DeepMerge(cur, getTargetContent(targets[1])))) :
       \E r \in {ExecutorApply(targets[1], d, fs, bk, w,
                               [failAt |-> failAt, ord |-> ord])} :
           /\ exitErr' = r.err
           /\ fs' = r.fs
           /\ bk' = r.bk
           /\ w' = r.w
           /\ log' = r.evs
           /\ pc' = IF r.err = Panic THEN "panicked" ELSE "returned"
    /\ curDiff' = d
    /\ phase' = "apply"
    /\ hk' = hk + 1
    /\ snap' = fs
    /\ UNCHANGED <<cli, sysconf, targets, fs0, idx, cur, run, last>>
    /\ UNCHANGED iniVars

NextExec ==
    \/ CallValidate
    \/ CallGetCurrentState
    \/ CallApply(NilDiff)
    \/ CallApply(EmptyDiff)
    \/ \E ord \in Perms(NamesOf(getTargetContent(targets[1])) \cup NamesOf(cur)) :
       \E ordDesired \in Perms(NamesOf(getTargetContent(targets[1]))) :
           CallApply(ComputeDiffWithCurrent(targets[1].Name,
                                            getTargetContent(targets[1]), cur, ord,
                                            ordDesired))

SpecExec == InitExec /\ [][NextExec]_vars

-----------------------------------------------------------------------------
(* C7 *)

\* C7: Apply with a nil diff or an empty diff returns success and changes
\* nothing: no file is written, no backup is made, no command is run.
C7_NilOrEmptyDiffNoOp ==
    (phase = "apply" /\ (curDiff.isNil \/ IsEmpty(curDiff))) =>
        /\ pc = "returned"
        /\ exitErr = Ok
        /\ fs = snap
        /\ log = <<>>

-----------------------------------------------------------------------------
(* SpecParse: Parse then Serialize of the unmodified lines, for every byte *)
(* string up to MaxLen over Alphabet.                                      *)

InitParse ==
    /\ input \in SeqsUpTo(Alphabet, MaxLen)
    /\ w = NewINIWrapper
    /\ data = <<>>
    /\ output = <<>>
    /\ edits = <<>>
    /\ ipc = "start"
    /\ round1 = NoRound
    /\ flat = EmptyMap
    /\ ld = NoLoad
    /\ call = NoCall
    /\ EngineIdle

ParseStep ==
    /\ ipc = "start"
    /\ w' = [w EXCEPT !.lines = Parse(w.parser, input)]
    /\ ipc' = "parsed"
    /\ UNCHANGED <<input, data, output, edits, round1, flat, ld, call>>
    /\ UNCHANGED engVars

SerializeStep ==
    /\ ipc = "parsed"
    /\ output' = Serialize(w.parser, w.lines)
    /\ ipc' = "serialized"
    /\ UNCHANGED <<input, w, data, edits, round1, flat, ld, call>>
    /\ UNCHANGED engVars

NextParse == ParseStep \/ SerializeStep

SpecParse == InitParse /\ [][NextParse]_vars

-----------------------------------------------------------------------------
(* C1 *)

\* C1: for every byte string B, Serialize(Parse(B)) is B, or B with one
\* newline added after the final line.
C1_RoundTrip ==
    ipc = "serialized" => output \in {input, input \o <<LF>>}

-----------------------------------------------------------------------------
(* SpecWrapper: a caller of the INI wrapper: Unmarshal, map mutations,     *)
(* Marshal.  The file is up to MaxLines lines drawn from LineVocab.        *)

\* the most lines of a file given to the wrapper
MaxLines == 3
\* the most map mutations between Unmarshal and Marshal
MaxEdits == 1

LineVocab ==
    { <<"[", "s", "]">>,
      <<"a", "=", "1">>,
      <<"b", SP, "=", SP, "2">>,
      <<"#", SP, "a", "=", "1">>,
      <<>> }

EditSections == {<<>>, <<"s">>, <<"t">>}
EditKeys == {<<"a">>, <<"c">>}
EditValues == {<<"1">>, <<"9">>}

InitWrapper ==
    /\ input \in {Join(ls) : ls \in SeqsUpTo(LineVocab, MaxLines)}
    /\ w = NewINIWrapper
    /\ data = EmptyMap
    /\ output = <<>>
    /\ edits = <<>>
    /\ ipc = "start"
    /\ round1 = NoRound
    /\ flat = EmptyMap
    /\ ld = NoLoad
    /\ call = NoCall
    /\ EngineIdle

UnmarshalStep ==
    /\ ipc = "start"
    /\ LET lines == Parse(w.parser, input)
       IN  /\ w' = [w EXCEPT !.lines = lines]
           /\ data' = Unmarshal(lines)
    /\ ipc' = "parsed"
    /\ UNCHANGED <<input, output, edits, round1, flat, ld, call>>
    /\ UNCHANGED engVars

\* data[section][key] = value, the section map made when it is missing
SetKey(d, section, key, value) ==
    Put(d, section, MapV(Put(ensureSection(d, section), key, value)))

EditSet(section, key, value) ==
    /\ ipc = "parsed"
    /\ Len(edits) < MaxEdits
    /\ data' = SetKey(data, section, key, Str(value))
    /\ edits' = Append(edits, [op |-> "set", section |-> section, key |-> key,
                               value |-> value])
    /\ UNCHANGED <<input, w, output, ipc, round1, flat, ld, call>>
    /\ UNCHANGED engVars

EditDelete(section, key) ==
    /\ ipc = "parsed"
    /\ Len(edits) < MaxEdits
    /\ data' = SetKey(data, section, key, DeletedV)
    /\ edits' = Append(edits, [op |-> "delete", section |-> section, key |-> key,
                               value |-> <<>>])
    /\ UNCHANGED <<input, w, output, ipc, round1, flat, ld, call>>
    /\ UNCHANGED engVars

\* delete(data[section], key)
RemoveKey(d, section, key) ==
    IF section \in DOMAIN d /\ IsMap(d[section]) /\ key \in DOMAIN d[section].m
    THEN [d EXCEPT ![section] =
             MapV([x \in (DOMAIN d[section].m) \ {key} |-> d[section].m[x]])]
    ELSE d

EditRemove(section, key) ==
    /\ ipc = "parsed"
    /\ Len(edits) < MaxEdits
    /\ section \in DOMAIN data
    /\ data' = RemoveKey(data, section, key)
    /\ edits' = Append(edits, [op |-> "remove", section |-> section, key |-> key,
                               value |-> <<>>])
    /\ UNCHANGED <<input, w, output, ipc, round1, flat, ld, call>>
    /\ UNCHANGED engVars

\* one mutation of edits made on the map d
ApplyEdit(d, e) ==
    CASE e.op = "set" -> SetKey(d, e.section, e.key, Str(e.value))
      [] e.op = "delete" -> SetKey(d, e.section, e.key, DeletedV)
      [] e.op = "remove" -> RemoveKey(d, e.section, e.key)

RECURSIVE ApplyEdits(_, _)
ApplyEdits(d, es) ==
    IF es = <<>> THEN d ELSE ApplyEdits(ApplyEdit(d, Head(es)), Tail(es))

MarshalStep ==
    /\ ipc = "parsed"
    /\ \E ord \in Perms(NamesOf(data)) : output' = Marshal(w, data, ord)
    /\ ipc' = "marshalled"
    /\ UNCHANGED <<input, w, data, edits, round1, flat, ld, call>>
    /\ UNCHANGED engVars

\* the caller parses the bytes Marshal wrote, with the same wrapper
UnmarshalOutput ==
    /\ ipc = "marshalled"
    /\ round1' = [data |-> data, output |-> output]
    /\ UNCHANGED <<flat, ld, call>>
    /\ \E lines \in {Parse(w.parser, output)} :
           /\ w' = [w EXCEPT !.lines = lines]
           /\ data' = Unmarshal(lines)
    /\ ipc' = "reparsed"
    /\ UNCHANGED <<input, output, edits>>
    /\ UNCHANGED engVars

\* the caller makes the same mutations on the map of the second Unmarshal
ReplayEdits ==
    /\ ipc = "reparsed"
    /\ data' = ApplyEdits(data, edits)
    /\ ipc' = "replayed"
    /\ UNCHANGED <<input, w, output, edits, round1, flat, ld, call>>
    /\ UNCHANGED engVars

MarshalAgain ==
    /\ ipc = "replayed"
    /\ \E ord \in Perms(NamesOf(data)) : output' = Marshal(w, data, ord)
    /\ ipc' = "remarshalled"
    /\ UNCHANGED <<input, w, data, edits, round1, flat, ld, call>>
    /\ UNCHANGED engVars

NextWrapper ==
    \/ UnmarshalStep
    \/ \E section \in EditSections, key \in EditKeys, value \in EditValues :
           EditSet(section, key, value)
    \/ \E section \in EditSections, key \in EditKeys : EditDelete(section, key)
    \/ \E section \in EditSections, key \in EditKeys : EditRemove(section, key)
    \/ MarshalStep
    \/ UnmarshalOutput
    \/ ReplayEdits
    \/ MarshalAgain

SpecWrapper == InitWrapper /\ [][NextWrapper]_vars

-----------------------------------------------------------------------------
(* C3 *)

\* the indexes of the active key lines of (section, key) among lines
KeyLines(lines, section, key) ==
    {i \in 1..Len(lines) :
        IsActiveKey(lines[i]) /\ lines[i].Section = section /\ lines[i].Key = key}

\* the only mutation was data[section][key] = {deleted: true} for a key that
\* has an active line in the parsed file
OnlyDeletedExisting ==
    /\ ipc = "marshalled"
    /\ Len(edits) = 1
    /\ edits[1].op = "delete"
    /\ KeyLines(w.lines, edits[1].section, edits[1].key) # {}

\* C3: after Unmarshal, marking an existing active key {deleted: true} and
\* Marshal, the output is the input with exactly that key's line removed.
C3_DeletedKeyLineRemoved ==
    OnlyDeletedExisting =>
        output = Join(DropAt(RawLines(input), 1,
                             KeyLines(w.lines, edits[1].section, edits[1].key)))

-----------------------------------------------------------------------------
(* C12 *)

\* the caller only set string values and removed keys
OnlyStringEdits ==
    \A i \in DOMAIN edits : edits[i].op \in {"set", "remove"}

\* C12: a map obtained from Unmarshal by adding, changing or removing
\* string-valued keys, written by Marshal and parsed again by Unmarshal,
\* comes back equal.
C12_MapRoundTrip ==
    (ipc = "reparsed" /\ OnlyStringEdits) => data = round1.data

-----------------------------------------------------------------------------
(* C13 *)

\* the caller only set values and marked keys {deleted: true}
OnlyMarkerEdits ==
    \A i \in DOMAIN edits : edits[i].op \in {"set", "delete"}

\* C13: the bytes of Unmarshal, edit, Marshal made on the output of a
\* first Unmarshal, edit, Marshal with the same edit are the bytes of the
\* first.
C13_SecondEditSameBytes ==
    (ipc = "remarshalled" /\ OnlyMarkerEdits) => output = round1.output

-----------------------------------------------------------------------------
(* SpecDiff: a caller of the diff engine.  current is cur, desired is data, *)
(* the diff returned is curDiff.                                           *)

\* the leaf values of the maps: strings, the deleted marker, a commented
\* wrapper
DiffLeaves == {Str(<<"1">>), Str(<<"9">>), DeletedV, CommentedV(<<"1">>)}

\* what a map read from the system holds under "": nothing, or the root
\* section with key a
PlainRoot == {EmptyMap, <<>> :> MapV(<<"a">> :> Str(<<"1">>))}

\* under a: nothing, a string, or a nested map
PlainTop ==
    {EmptyMap, <<"a">> :> Str(<<"1">>), <<"a">> :> MapV(<<"a">> :> Str(<<"1">>))}

\* under s: nothing, or a section with keys among a and b
PlainSection ==
    {EmptyMap,
     <<"s">> :> MapV(EmptyMap),
     <<"s">> :> MapV(<<"a">> :> Str(<<"1">>)),
     <<"s">> :> MapV((<<"a">> :> Str(<<"1">>)) @@ (<<"b">> :> Str(<<"2">>)))}

\* the maps a state read returns: strings under sections
CurrentMaps ==
    {r @@ t @@ sec : r \in PlainRoot, t \in PlainTop, sec \in PlainSection}

\* what a desired map holds more: other strings, deleted markers, a
\* commented wrapper
RootChoices ==
    PlainRoot \cup {<<>> :> MapV(<<"a">> :> v) : v \in {Str(<<"9">>), DeletedV}}

TopChoices ==
    PlainTop \cup {<<"a">> :> v : v \in {Str(<<"9">>), DeletedV}}

SectionChoices ==
    PlainSection
    \cup {<<"s">> :> MapV(<<"a">> :> v) : v \in DiffLeaves \ {Str(<<"1">>)}}

DiffMaps ==
    {r @@ t @@ sec : r \in RootChoices, t \in TopChoices, sec \in SectionChoices}

\* the caller holds a desired map and either a map read from the system or
\* the desired map itself
InitDiff ==
    /\ data \in DiffMaps
    /\ cur \in CurrentMaps \cup {data}
    /\ curDiff = NilDiff
    /\ ipc = "start"
    /\ input = <<>>
    /\ output = <<>>
    /\ edits = <<>>
    /\ round1 = NoRound
    /\ flat = EmptyMap
    /\ ld = NoLoad
    /\ call = NoCall
    /\ w = NewINIWrapper
    /\ cli = [DryRun |-> FALSE, Force |-> FALSE, Backup |-> FALSE, Targets |-> <<>>]
    /\ sysconf = [Targets |-> <<>>, Hooks |-> [PreApply |-> <<>>, PostApply |-> <<>>]]
    /\ targets = <<>>
    /\ fs = <<>>
    /\ fs0 = <<>>
    /\ snap = <<>>
    /\ bk = {}
    /\ pc = "idle"
    /\ hk = 1
    /\ idx = 1
    /\ phase = "read"
    /\ log = <<>>
    /\ exitErr = Ok
    /\ run = 1
    /\ last = NoLast

\* what a step of the caller of the diff engine leaves alone
DiffFrame ==
    UNCHANGED <<input, w, data, output, edits, round1, ld, call, cli, sysconf, targets,
                fs, fs0, bk, pc, hk, idx, phase, cur, log, exitErr, run, last, snap>>

\* ComputeFlatDiff(current, desired): flatten and compare.  ord and
\* ordDesired are the orders in which the runtime ranges over the top-level
\* keys, the only level where two keys of these maps flatten to the same path
FlatDiffStep ==
    /\ ipc = "start"
    /\ \E ord \in Perms(DOMAIN cur), ordDesired \in Perms(DOMAIN data) :
           /\ curDiff' = ComputeFlatDiff(cur, data, ord, ordDesired)
           /\ flat' = FlattenForDiff(data, <<>>, ordDesired)
    /\ ipc' = "flat"
    /\ DiffFrame

\* Manager.ComputeDiffWithCurrent(target, desired, current): filter, flatten
\* and compare
ManagedDiffStep ==
    /\ ipc = "start"
    /\ \E ord \in Perms(DOMAIN data), ordDesired \in Perms(DOMAIN data) :
           /\ curDiff' = ComputeDiffWithCurrent("t", data, cur, ord, ordDesired)
           /\ flat' = FlattenForDiff(data, <<>>, ordDesired)
    /\ ipc' = "managed"
    /\ DiffFrame

NextDiff == FlatDiffStep \/ ManagedDiffStep

SpecDiff == InitDiff /\ [][NextDiff]_vars

-----------------------------------------------------------------------------
(* What a diff reports *)

\* the key paths of the four fields of the diff
ReportedPaths(d) ==
    (DOMAIN d.Added) \cup (DOMAIN d.Modified) \cup Range(d.Removed) \cup (DOMAIN d.Changes)

\* the dotted path of key under prefix, as FlattenForDiff builds it
PathOf(prefix, key) == IF prefix # <<>> THEN prefix \o <<".">> \o key ELSE key

\* the key paths a map mentions: those of its leaves and of its nested maps
RECURSIVE MentionedPaths(_, _)
MentionedPaths(d, prefix) ==
    UNION {{PathOf(prefix, key)}
           \cup (IF IsMap(d[key]) /\ ~IsSentinel(d[key])
                 THEN MentionedPaths(d[key].m, PathOf(prefix, key))
                 ELSE {}) : key \in DOMAIN d}

\* the paths of the leaves of a map
RECURSIVE LeafPaths(_, _)
LeafPaths(d, prefix) ==
    UNION {IF IsMap(d[key]) /\ ~IsSentinel(d[key])
           THEN LeafPaths(d[key].m, PathOf(prefix, key))
           ELSE {PathOf(prefix, key)} : key \in DOMAIN d}


-----------------------------------------------------------------------------
(* C14 *)

\* C14: ComputeDiffWithCurrent reports in Added, Modified, Removed and
\* Changes only key paths that desired mentions; a key of current that
\* desired does not mention appears in none of the four fields.
C14_OnlyMentionedPaths ==
    ipc = "managed" => ReportedPaths(curDiff) \subseteq MentionedPaths(data, <<>>)

-----------------------------------------------------------------------------
(* C15 *)

\* the leaves of a map: <<path, value>>
RECURSIVE LeafValues(_, _)
LeafValues(d, prefix) ==
    UNION {IF IsMap(d[key]) /\ ~IsSentinel(d[key])
           THEN LeafValues(d[key].m, PathOf(prefix, key))
           ELSE {<<PathOf(prefix, key), d[key]>>} : key \in DOMAIN d}

\* the paths of the leaves of a map that are {deleted: true}
DeletedLeafPaths(d) ==
    {e[1] : e \in {x \in LeafValues(d, <<>>) : IsDeletedMarker(x[2])}}

\* a diff was returned
Diffed == ipc \in {"flat", "managed"}

\* the current map the comparison was given: for ComputeDiffWithCurrent the
\* current map after the managed-key filter
Compared == IF ipc = "managed" THEN filterManagedKeys(cur, data) ELSE cur

\* C15 as claimed: every leaf path whose value in desired is {deleted: true}
\* is listed in Removed and in neither Added nor Modified, whether or not
\* current has the path.
C15_DeletedAlwaysRemoved ==
    Diffed =>
        \A p \in DeletedLeafPaths(data) :
            /\ p \in Range(curDiff.Removed)
            /\ p \notin DOMAIN curDiff.Added
            /\ p \notin DOMAIN curDiff.Modified

\* C15 amended: every path at which the flattened desired holds
\* {deleted: true} is listed in neither Added nor Modified, and is listed in
\* Removed exactly when the current map that is compared has a leaf at it.
C15_DeletedRemovedWhenPresent ==
    Diffed =>
        \A p \in DOMAIN flat :
            IsDeletedMarker(flat[p]) =>
                /\ p \notin DOMAIN curDiff.Added
                /\ p \notin DOMAIN curDiff.Modified
                /\ p \in Range(curDiff.Removed) <=> p \in LeafPaths(Compared, <<>>)

\* a managed diff of a desired map with two deleted markers, one on a key
\* current has and one on a key current does not have
C15_Witness ==
    /\ ipc = "managed"
    /\ \E p, q \in DOMAIN flat :
           /\ IsDeletedMarker(flat[p]) /\ p \in Range(curDiff.Removed)
           /\ IsDeletedMarker(flat[q]) /\ q \notin Range(curDiff.Removed)

-----------------------------------------------------------------------------
(* C16 *)

\* C16: for every nested map M, sentinel leaves included,
\* ComputeFlatDiff(M, M).IsEmpty() is true.
C16_EqualMapsEmptyDiff ==
    (ipc = "flat" /\ cur = data) => IsEmpty(curDiff)

-----------------------------------------------------------------------------
(* C17 *)

\* a value that is a nested map the flattening descends into
IsNested(v) == IsMap(v) /\ ~IsSentinel(v)

\* a value that is a leaf to keep or change: no nested map, no deleted marker
IsLeaf(v) == ~IsNested(v) /\ ~IsDeletedMarker(v)

\* the path p is key or lies under key
Under(key, p) ==
    \/ p = key
    \/ Len(p) > Len(key) /\ SubSeq(p, 1, Len(key) + 1) = key \o <<".">>

\* C17: when a key holds a nested map in one of current and desired and a
\* leaf in the other, the managed-key diff reports exactly one entry for the
\* key: in Modified, with the old and the new value.
C17_MismatchIsModified ==
    ipc = "managed" =>
        \A key \in (DOMAIN cur) \cap (DOMAIN data) :
            ((IsNested(cur[key]) /\ IsLeaf(data[key]))
             \/ (IsLeaf(cur[key]) /\ IsNested(data[key]))) =>
                /\ key \in DOMAIN curDiff.Modified
                /\ curDiff.Modified[key] = [Old |-> cur[key], New |-> data[key]]
                /\ \A p \in ReportedPaths(curDiff) : Under(key, p) => p = key
                /\ key \notin DOMAIN curDiff.Added
                /\ key \notin Range(curDiff.Removed)

-----------------------------------------------------------------------------
(* C18 *)

\* C18 as claimed: for the managed-key diff engine, an empty desired and a
\* non-empty current give a non-empty diff whose Removed is the set of the
\* flattened leaf paths of current.
C18_EmptyDesiredAllRemoved ==
    (ipc = "managed" /\ data = EmptyMap /\ cur # EmptyMap) =>
        /\ ~IsEmpty(curDiff)
        /\ Range(curDiff.Removed) = LeafPaths(cur, <<>>)

\* C18 amended: for ComputeFlatDiff, which flattens and compares without
\* the managed-key filter, an empty desired gives a diff whose Removed is
\* the set of the flattened leaf paths of current, non-empty when current
\* has a leaf; ComputeDiffWithCurrent, which filters current by desired
\* first, returns an empty diff for an empty desired.
C18_FlatEmptyDesiredAllRemoved ==
    data = EmptyMap =>
        /\ ipc = "flat" =>
               /\ Range(curDiff.Removed) = LeafPaths(cur, <<>>)
               /\ Len(curDiff.Removed) = Cardinality(LeafPaths(cur, <<>>))
               /\ \A p \in Range(curDiff.Removed) : p \in DOMAIN curDiff.Changes
               /\ IsEmpty(curDiff) <=> LeafPaths(cur, <<>>) = {}
        /\ ipc = "managed" => IsEmpty(curDiff)

\* ComputeFlatDiff of a current map with three leaves and an empty desired
C18_Witness ==
    /\ ipc = "flat"
    /\ data = EmptyMap
    /\ Cardinality(LeafPaths(cur, <<>>)) = 3
    /\ Len(curDiff.Removed) = 3

-----------------------------------------------------------------------------
(* C19 *)

\* current holds key only inside the root section ""
OnlyInRoot(key) ==
    /\ key \notin DOMAIN cur
    /\ <<>> \in DOMAIN cur
    /\ IsMap(cur[<<>>])
    /\ key \in DOMAIN cur[<<>>].m

\* C19: when current holds k only inside the root section "" and desired
\* names k at top level with a string, the diff compares current[""][k]
\* with desired[k]: unequal values give one Modified entry for k with the
\* old and the new value, equal values give no entry, and k is never Added.
C19_RootAliasCompared ==
    ipc = "managed" =>
        \A key \in DOMAIN data :
            (OnlyInRoot(key) /\ IsStr(data[key])) =>
                /\ key \notin DOMAIN curDiff.Added
                /\ IF cur[<<>>].m[key] = data[key]
                   THEN key \notin ReportedPaths(curDiff)
                   ELSE /\ key \in DOMAIN curDiff.Modified
                        /\ curDiff.Modified[key] =
                               [Old |-> cur[<<>>].m[key], New |-> data[key]]
                        /\ key \notin Range(curDiff.Removed)

-----------------------------------------------------------------------------
(* C20 *)

\* Apply of a systemd target returned, called with a diff that has changes
SystemdApplied ==
    /\ phase = "apply"
    /\ targets[1].Type = TYPE_SYSTEMD
    /\ ~curDiff.isNil
    /\ DOMAIN curDiff.Changes # {}

\* C20: systemd Apply called with a diff whose Changes is non-empty runs
\* systemctl daemon-reload, then systemctl reload-or-restart of the unit
\* when reload is true, and returns success unless one of the two commands
\* fails.
C20_SystemdReloads ==
    SystemdApplied =>
        /\ pc = "returned"
        /\ log # <<>>
        /\ log[1] = Ev("cmd", targets[1].Name, "systemctl daemon-reload")
        /\ exitErr = Ok =>
               log = <<Ev("cmd", targets[1].Name, "systemctl daemon-reload")>>
                     \o (IF targets[1].Config.Reload
                         THEN <<Ev("cmd", targets[1].Name, "systemctl reload-or-restart")>>
                         ELSE <<>>)
        /\ exitErr # Ok => exitErr[Len(exitErr)] = "exit status 1"

-----------------------------------------------------------------------------
(* SpecSed: `confedit apply` run up to MaxRuns times in a row over sed     *)
(* targets, without hooks and without --dry-run; nothing but the command   *)
(* changes the files between the runs.                                     *)

SedTarget(name, path, backup, commands) ==
    Target(name, TYPE_SED,
           [BaseConfig EXCEPT !.Path = path, !.Backup = backup, !.Commands = commands])

\* s/1/2/g; s/9/9/g, which changes no file; s/1/2/g then s/2/1/g with a
\* backup
SedPool ==
    { SedTarget("sa", "p1", FALSE, << <<"s", "1", "2">> >>),
      SedTarget("sb", "p1", FALSE, << <<"s", "9", "9">> >>),
      SedTarget("sc", "p2", TRUE, << <<"s", "1", "2">>, <<"s", "2", "1">> >>) }

InitSed ==
    /\ cli = [DryRun |-> FALSE, Force |-> FALSE, Backup |-> FALSE, Targets |-> <<>>]
    /\ sysconf \in [Targets : TargetLists(SedPool, MaxFileTargets),
                    Hooks : {[PreApply |-> <<>>, PostApply |-> <<>>]}]
    /\ targets = <<>>
    /\ fs \in {[p \in Paths |-> IF p = "p1" THEN f ELSE SampleFile] : f \in FileContents}
    /\ fs0 = fs
    /\ snap = fs
    /\ bk = {}
    /\ w = NewINIWrapper
    /\ pc = "init"
    /\ hk = 1
    /\ idx = 1
    /\ phase = "read"
    /\ cur = EmptyMap
    /\ curDiff = NilDiff
    /\ log = <<>>
    /\ exitErr = Ok
    /\ run = 1
    /\ last = NoLast
    /\ IniIdle

SpecSed == InitSed /\ [][NextFile]_vars

-----------------------------------------------------------------------------
(* C21 *)

\* C21: for sed targets whose files exist, the run of the command that
\* follows a run without error computes an empty diff for every target and
\* does not run the sed commands on a file again.
C21_SedSecondRunEmpty ==
    run > 1 =>
        /\ (pc = "reconcile" /\ phase \in {"apply", "next"}) => IsEmpty(curDiff)
        /\ \A i \in DOMAIN log : log[i].op \notin {"apply", "writefile"}

-----------------------------------------------------------------------------
(* config.CueConfigLoader and loader.CueDataLoader: collect the files,     *)
(* merge them file by file, validate.                                      *)

\* a target as the loader decodes it: the metadata map is never nil
CueTarget(name, type, metadata, config) ==
    [Name |-> name, Type |-> type, Metadata |-> metadata, Config |-> config]

\* the nil *Hooks of a file without hooks
NoHooks == [isNil |-> TRUE]

CueConfig(ts, variables, hooks) ==
    [Targets |-> ts, Variables |-> variables, Hooks |-> hooks]

\* the byte values of the characters of the paths
ByteOf(c) ==
    CASE c = "-" -> 45 [] c = "." -> 46 [] c = "/" -> 47
      [] c = "1" -> 49 [] c = "2" -> 50 [] c = "9" -> 57
      [] c = "c" -> 99 [] c = "e" -> 101 [] c = "t" -> 116
      [] c = "u" -> 117 [] c = "x" -> 120

\* a < b for Go strings: byte by byte
RECURSIVE LexLess(_, _)
LexLess(a, b) ==
    IF a = <<>> THEN b # <<>>
    ELSE IF b = <<>> THEN FALSE
    ELSE IF Head(a) = Head(b) THEN LexLess(Tail(a), Tail(b))
    ELSE ByteOf(Head(a)) < ByteOf(Head(b))

\* sort.Strings
SortStrings(S) ==
    CHOOSE sorted \in Perms(S) :
        \A i, j \in DOMAIN sorted : i < j => LexLess(sorted[i], sorted[j])

\* strings.HasSuffix(name, ".cue")
HasSuffixCue(path) ==
    Len(path) >= 4 /\ SubSeq(path, Len(path) - 3, Len(path)) = <<".", "c", "u", "e">>

\* the configPath that is the directory
DirPath == <<>>

\* dir: the files under the directory, full path -> decoded file
collectCueFiles(configPath, dir) ==
    IF configPath = DirPath
    THEN [err |-> Ok, paths |-> SortStrings({path \in DOMAIN dir : HasSuffixCue(path)})]
    ELSE IF ~HasSuffixCue(configPath)
    THEN [err |-> <<"file must have .cue extension">>, paths |-> <<>>]
    ELSE [err |-> Ok, paths |-> <<configPath>>]

\* CueConfigLoader.mergeFileTargets
mergeFileTargets(existing, newTarget) ==
    [existing EXCEPT
        !.Content = DeepMerge(@, newTarget.Content),
        !.Options = DeepMerge(@, newTarget.Options),
        !.Path = IF newTarget.Path # "" THEN newTarget.Path ELSE @,
        !.Format = IF newTarget.Format # "" THEN newTarget.Format ELSE @,
        !.Owner = IF newTarget.Owner # "" THEN newTarget.Owner ELSE @,
        !.Group = IF newTarget.Group # "" THEN newTarget.Group ELSE @,
        !.Mode = IF newTarget.Mode # <<>> THEN newTarget.Mode ELSE @,
        !.Backup = IF newTarget.Backup THEN TRUE ELSE @]

\* file.MergeConfig
MergeConfig(existing, newTarget) ==
    [existing EXCEPT
        !.Content = DeepMerge(@, newTarget.Content),
        !.Options = DeepMerge(@, newTarget.Options),
        !.Path = IF newTarget.Path # "" THEN newTarget.Path ELSE @,
        !.Format = IF newTarget.Format # "" THEN newTarget.Format ELSE @,
        !.Owner = IF newTarget.Owner # "" THEN newTarget.Owner ELSE @,
        !.Group = IF newTarget.Group # "" THEN newTarget.Group ELSE @,
        !.Mode = IF newTarget.Mode # <<>> THEN newTarget.Mode ELSE @]

\* mergeDconfTargets and dconf.MergeConfig
mergeDconfTargets(existing, newTarget) ==
    [existing EXCEPT
        !.Settings = DeepMerge(@, newTarget.Settings),
        !.Schema = IF newTarget.Schema # "" THEN newTarget.Schema ELSE @,
        !.User = IF newTarget.User # "" THEN newTarget.User ELSE @]

\* mergeSystemdTargets and systemd.MergeConfig
mergeSystemdTargets(existing, newTarget) ==
    [existing EXCEPT
        !.Properties = DeepMerge(@, newTarget.Properties),
        !.Unit = IF newTarget.Unit # "" THEN newTarget.Unit ELSE @,
        !.Section = IF newTarget.Section # "" THEN newTarget.Section ELSE @,
        !.Reload = IF newTarget.Reload THEN TRUE ELSE @]

\* the two loaders: config.CueConfigLoader merges file configs with its own
\* mergeFileTargets, loader.CueDataLoader with file.MergeConfig
Loaders == {"CueConfigLoader", "CueDataLoader"}

\* mergeTargets(existing, newTarget): the error and existing as it is left
mergeTargets(loader, existing, newTarget) ==
    LET merged == [existing EXCEPT !.Metadata = DeepMerge(@, newTarget.Metadata)]
    IN
    IF existing.Type # newTarget.Type
    THEN [err |-> <<"cannot merge targets of different types">>, target |-> merged]
    ELSE CASE existing.Type = TYPE_FILE ->
                [err |-> Ok,
                 target |-> [merged EXCEPT !.Config =
                                IF loader = "CueConfigLoader"
                                THEN mergeFileTargets(@, newTarget.Config)
                                ELSE MergeConfig(@, newTarget.Config)]]
           [] existing.Type = TYPE_DCONF ->
                [err |-> Ok,
                 target |-> [merged EXCEPT !.Config =
                                mergeDconfTargets(@, newTarget.Config)]]
           [] existing.Type = TYPE_SYSTEMD ->
                [err |-> Ok,
                 target |-> [merged EXCEPT !.Config =
                                mergeSystemdTargets(@, newTarget.Config)]]
           [] OTHER ->
                [err |-> <<"unsupported target type for merging">>, target |-> merged]

\* targetsByName[name]: the place in the merged list of the target of that
\* name, 0 when there is none
ByName(ts, name) ==
    IF \E i \in DOMAIN ts : ts[i].Name = name
    THEN CHOOSE i \in DOMAIN ts : ts[i].Name = name
    ELSE 0

\* the loop over the targets of one file
RECURSIVE mergeFileInto(_, _, _)
mergeFileInto(loader, ts, incoming) ==
    IF incoming = <<>> THEN [err |-> Ok, Targets |-> ts]
    ELSE LET target == Head(incoming)
             at == ByName(ts, target.Name)
         IN  IF at = 0
             THEN mergeFileInto(loader, Append(ts, target), Tail(incoming))
             ELSE LET r == mergeTargets(loader, ts[at], target)
                  IN  IF r.err # Ok
                      THEN [err |-> Wrap(<<"merge target">>, r.err), Targets |-> ts]
                      ELSE mergeFileInto(loader, [ts EXCEPT ![at] = r.target],
                                         Tail(incoming))

\* maps.Copy(dst, src)
MapsCopy(dst, src) ==
    [key \in (DOMAIN dst) \cup (DOMAIN src) |->
        IF key \in DOMAIN src THEN src[key] ELSE dst[key]]

\* the *SystemConfig nil pointer a failed load returns
NilConfig == [isNil |-> TRUE, Targets |-> <<>>, Variables |-> EmptyMap, Hooks |-> NoHooks]

-----------------------------------------------------------------------------
(* SpecLoad: LoadConfiguration over a directory of up to three .cue files  *)
(* and one other file, or over one of its files.                           *)

\* "1-2.cue" < "1.cue" < "1/2.cue" in byte order
CuePaths ==
    { <<"1", ".", "c", "u", "e">>,
      <<"1", "/", "2", ".", "c", "u", "e">>,
      <<"1", "-", "2", ".", "c", "u", "e">> }

OtherPath == <<"9", ".", "t", "x", "t">>

KA == <<"a">>
KB == <<"b">>

\* what a file says of the target named after its type: the first or the
\* second of two descriptions sharing the key a and differing in the rest
CueTargetOf(type, second) ==
    LET leaf == IF second THEN Str(<<"9">>) ELSE Str(<<"1">>)
        flatMap == IF second THEN (KA :> leaf) @@ (KB :> leaf) ELSE KA :> leaf
        nested == <<"s">> :> MapV(flatMap)
        config ==
            CASE type = TYPE_FILE ->
                    [BaseConfig EXCEPT !.Path = IF second THEN "" ELSE "p1",
                                       !.Format = "ini", !.Backup = second,
                                       !.Content = nested, !.Options = flatMap]
              [] type = TYPE_DCONF ->
                    [BaseConfig EXCEPT !.Schema = "/org/x", !.Settings = flatMap]
              [] type = TYPE_SYSTEMD ->
                    [BaseConfig EXCEPT !.Unit = "u.service", !.Reload = second,
                                       !.Properties = flatMap]
              [] type = TYPE_SED ->
                    [BaseConfig EXCEPT !.Path = "p1",
                                       !.Commands = << <<"s", "1", "2">> >>]
    IN  CueTarget(type, type, flatMap, config)

\* the files: one target and a variable; a file target without backup plus
\* hooks; nothing but hooks
CueFiles ==
    {CueConfig(<<CueTargetOf(type, second)>>,
               IF second THEN (KA :> Str(<<"9">>)) @@ (KB :> Str(<<"9">>))
               ELSE KA :> MapV(KA :> Str(<<"1">>)),
               NoHooks) : type \in RegisteredTypes, second \in BOOLEAN}
    \cup {CueConfig(<<[CueTargetOf(TYPE_FILE, TRUE) EXCEPT !.Config.Backup = FALSE],
                      CueTargetOf(TYPE_DCONF, FALSE)>>,
                    EmptyMap, [PreApply |-> << <<"true">> >>, PostApply |-> <<>>])}

\* the file that is no .cue file: were it loaded, it would add the target x
OtherFile ==
    CueConfig(<<[CueTargetOf(TYPE_DCONF, TRUE) EXCEPT !.Name = "x"]>>,
              <<"x">> :> Str(<<"9">>), NoHooks)

InitLoad ==
    /\ \E loader \in Loaders, schemaOk \in BOOLEAN :
       \E paths \in (SUBSET CuePaths) \ {{}} :
       \E dir \in {f @@ (OtherPath :> OtherFile) : f \in [paths -> CueFiles]} :
       \E configPath \in {DirPath, OtherPath, <<"1", ".", "c", "u", "e">>} \cap
                         ({DirPath} \cup DOMAIN dir) :
           ld = [state |-> "start", loader |-> loader, schemaOk |-> schemaOk,
                 dir |-> dir, configPath |-> configPath, paths |-> <<>>, i |-> 1,
                 config |-> CueConfig(<<>>, EmptyMap, NoHooks), err |-> Ok]
    /\ w = NewINIWrapper
    /\ input = <<>>
    /\ data = EmptyMap
    /\ output = <<>>
    /\ edits = <<>>
    /\ ipc = "idle"
    /\ round1 = NoRound
    /\ flat = EmptyMap
    /\ call = NoCall
    /\ EngineIdle

LoadFrame ==
    /\ UNCHANGED <<input, w, data, output, edits, ipc, round1, flat, call>>
    /\ UNCHANGED engVars

\* LoadConfiguration up to its loop: collectCueFiles
CollectFiles ==
    /\ ld.state = "start"
    /\ \E r \in {collectCueFiles(ld.configPath, ld.dir)} :
           ld' = IF r.err # Ok
                 THEN [ld EXCEPT !.state = "failed", !.config = NilConfig,
                                 !.err = Wrap(<<"collect CUE files">>, r.err)]
                 ELSE [ld EXCEPT !.state = "loading", !.paths = r.paths]
    /\ LoadFrame

\* one turn of the loop over the files: the file's targets, variables, hooks
LoadFile ==
    /\ ld.state = "loading"
    /\ ld.i <= Len(ld.paths)
    /\ \E r \in {mergeFileInto(ld.loader, ld.config.Targets,
                               ld.dir[ld.paths[ld.i]].Targets)} :
           ld' = IF r.err # Ok
                 THEN [ld EXCEPT !.state = "failed", !.config = NilConfig, !.err = r.err]
                 ELSE [ld EXCEPT
                          !.i = @ + 1,
                          !.config =
                              CueConfig(r.Targets,
                                        MapsCopy(ld.config.Variables,
                                                 ld.dir[ld.paths[ld.i]].Variables),
                                        IF ld.dir[ld.paths[ld.i]].Hooks # NoHooks
                                        THEN ld.dir[ld.paths[ld.i]].Hooks
                                        ELSE ld.config.Hooks)]
    /\ LoadFrame

\* after the loop: ValidateConfiguration, then the merged configuration
ValidateLoaded ==
    /\ ld.state = "loading"
    /\ ld.i > Len(ld.paths)
    /\ ld' = IF ld.schemaOk
             THEN [ld EXCEPT !.state = "loaded"]
             ELSE [ld EXCEPT !.state = "failed", !.config = NilConfig,
                             !.err = <<"config validation">>]
    /\ LoadFrame

NextLoad == CollectFiles \/ LoadFile \/ ValidateLoaded

SpecLoad == InitLoad /\ [][NextLoad]_vars

-----------------------------------------------------------------------------
(* What a load of the directory was given and what it returned *)

\* LoadConfiguration of the directory returned and every file passes the
\* schema
DirLoadReturned ==
    /\ ld.state \in {"loaded", "failed"}
    /\ ld.configPath = DirPath
    /\ ld.schemaOk

\* the .cue files of the directory
CueFilesOfDir == {path \in DOMAIN ld.dir : HasSuffixCue(path)}

\* the .cue files that define a target of that name and type
Defining(name, type) ==
    {path \in CueFilesOfDir :
        \E i \in DOMAIN ld.dir[path].Targets :
            ld.dir[path].Targets[i].Name = name /\ ld.dir[path].Targets[i].Type = type}

\* the target of that name in a file that defines it
DefinedIn(path, name) ==
    ld.dir[path].Targets[ByName(ld.dir[path].Targets, name)]

\* the path that is last in lexicographic order
LastOf(paths) == CHOOSE path \in paths : \A other \in paths \ {path} : LexLess(other, path)

\* the targets of that name in the loaded configuration
LoadedNamed(name) ==
    {i \in DOMAIN ld.config.Targets : ld.config.Targets[i].Name = name}

-----------------------------------------------------------------------------
(* C22 *)

\* C22: loading files that define two targets of the same name and the
\* same type succeeds and yields exactly one target of that name, for each
\* of the types file, dconf, systemd and sed.
C22_DuplicatesMerged ==
    DirLoadReturned =>
        \A type \in RegisteredTypes :
            Cardinality(Defining(type, type)) >= 2 =>
                /\ ld.state = "loaded"
                /\ ld.err = Ok
                /\ Cardinality(LoadedNamed(type)) = 1

-----------------------------------------------------------------------------
(* C23 *)

\* the maps of a target that the files merge
MergedFields == {"Content", "Options", "Settings", "Properties", "Metadata"}

FieldOf(target, field) ==
    IF field = "Metadata" THEN target.Metadata ELSE target.Config[field]

\* the .cue files whose target of that name has a leaf at the key path
DefiningLeaf(name, type, field, keyPath) ==
    {path \in Defining(name, type) :
        keyPath \in LeafPaths(FieldOf(DefinedIn(path, name), field), <<>>)}

\* the leaf at a key path of a map
LeafAt(d, keyPath) ==
    (CHOOSE e \in LeafValues(d, <<>>) : e[1] = keyPath)[2]

\* C23: a load of a directory merges its .cue files in lexicographic order
\* of full path: every key that files define for a target, in content,
\* options, settings, properties or metadata, has in the loaded target the
\* value of the lexicographically last file that defines it (its only file,
\* when one file defines it), and likewise every key of the variables.
C23_LastFileWins ==
    DirLoadReturned =>
        /\ ld.state = "loaded"
        /\ \A type \in RegisteredTypes, field \in MergedFields :
               \A path \in Defining(type, type) :
                   \A keyPath \in LeafPaths(FieldOf(DefinedIn(path, type), field), <<>>) :
                       /\ LoadedNamed(type) # {}
                       /\ \A i \in LoadedNamed(type) :
                              /\ keyPath \in LeafPaths(FieldOf(ld.config.Targets[i], field),
                                                       <<>>)
                              /\ LeafAt(FieldOf(ld.config.Targets[i], field), keyPath)
                                     = LeafAt(FieldOf(DefinedIn(
                                                  LastOf(DefiningLeaf(type, type, field,
                                                                      keyPath)), type),
                                              field), keyPath)
        /\ \A path \in CueFilesOfDir :
               \A key \in DOMAIN ld.dir[path].Variables :
                   /\ key \in DOMAIN ld.config.Variables
                   /\ ld.config.Variables[key] =
                          ld.dir[LastOf({other \in CueFilesOfDir :
                                            key \in DOMAIN ld.dir[other].Variables})
                                ].Variables[key]

-----------------------------------------------------------------------------
(* C24 *)

\* C24: the backup flag of a file target merged from several files is true
\* if and only if one of the files sets backup true, whichever of the two
\* merge routines for file configs the loader uses.
C24_BackupIsOr ==
    (DirLoadReturned /\ ld.state = "loaded") =>
        \A i \in LoadedNamed(TYPE_FILE) :
            ld.config.Targets[i].Config.Backup
                <=> \E path \in Defining(TYPE_FILE, TYPE_FILE) :
                        DefinedIn(path, TYPE_FILE).Config.Backup

-----------------------------------------------------------------------------
(* SpecConfigure: a caller of INIWrapper.Configure, up to MaxCalls calls   *)
(* on one wrapper.  A nil options map is the map without keys: Configure   *)
(* reads no key of either.                                                 *)

\* what a caller gives for one option: nothing, a value of the right type,
\* the empty string, a value of the wrong type
OptionChoices(key) ==
    LET values == IF key = USE_SPACING
                  THEN {BoolV(FALSE), BoolV(TRUE), Str(<<"x">>)}
                  ELSE IF key = COMMENT_CHARS
                  THEN {Str(<<"!">>), Str(<<>>), BoolV(TRUE)}
                  ELSE {Str(<<":", "=">>), Str(<<>>), BoolV(TRUE)}
    IN  {EmptyMap} \cup {key :> v : v \in values}

OptionMaps ==
    {a @@ b @@ c : a \in OptionChoices(USE_SPACING), b \in OptionChoices(COMMENT_CHARS),
                   c \in OptionChoices(DELIMITER)}

InitConfigure ==
    /\ w = NewINIWrapper
    /\ call = [name |-> "NewINIWrapper", options |-> EmptyMap, n |-> 0]
    /\ input = <<>>
    /\ data = EmptyMap
    /\ output = <<>>
    /\ edits = <<>>
    /\ ipc = "idle"
    /\ round1 = NoRound
    /\ flat = EmptyMap
    /\ ld = NoLoad
    /\ EngineIdle

\* w.Configure(options)
ConfigureStep ==
    /\ call.n < MaxCalls
    /\ \E options \in OptionMaps :
           /\ w' = [w EXCEPT !.parser = Configure(w.parser, options)]
           /\ call' = [name |-> "Configure", options |-> options, n |-> call.n + 1]
    /\ UNCHANGED <<input, data, output, edits, ipc, round1, flat, ld>>
    /\ UNCHANGED engVars

NextConfigure == ConfigureStep

SpecConfigure == InitConfigure /\ [][NextConfigure]_vars

-----------------------------------------------------------------------------
(* C25 *)

\* the option is missing from the options, or has a value of the wrong
\* type, or is the empty string
NotGiven(options, key) ==
    \/ key \notin DOMAIN options
    \/ options[key].k # (IF key = USE_SPACING THEN "bool" ELSE "str")
    \/ (IsStr(options[key]) /\ options[key].s = <<>>)

\* C25: after Configure(options) returns, each option that is missing from
\* options, has a value of the wrong type or is an empty string has its
\* default value: use_spacing true, comment_chars # and ;, delimiter =;
\* also for a wrapper that was configured earlier with other values.
C25_DefaultsWhenNotGiven ==
    call.name = "Configure" =>
        /\ NotGiven(call.options, USE_SPACING) =>
               w.parser.useSpacing = NewRelaxedINIParser.useSpacing
        /\ NotGiven(call.options, COMMENT_CHARS) =>
               w.parser.commentChars = NewRelaxedINIParser.commentChars
        /\ NotGiven(call.options, DELIMITER) =>
               w.parser.delimiter = NewRelaxedINIParser.delimiter

-----------------------------------------------------------------------------
(* The parser's line operations: ini.go UpdateValue, AddKey, GetValue,     *)
(* KeyExists.                                                              *)

\* the index of the first line that the scan shared by UpdateValue, GetValue
\* and KeyExists stops at, or 0: a header sets currentSection, any other line
\* is a hit when currentSection = section and its Key is key
RECURSIVE ScanFor(_, _, _, _, _)
ScanFor(lines, section, key, i, currentSection) ==
    IF i > Len(lines) THEN 0
    ELSE IF lines[i].IsSection
    THEN ScanFor(lines, section, key, i + 1, lines[i].Section)
    ELSE IF currentSection = section /\ lines[i].Key = key THEN i
    ELSE ScanFor(lines, section, key, i + 1, currentSection)

UpdateValue(lines, section, key, newValue) ==
    LET i == ScanFor(lines, section, key, 1, <<>>)
    IN  IF i = 0 THEN lines
        ELSE [lines EXCEPT ![i] = [@ EXCEPT !.Value = newValue]]

GetValue(lines, section, key) ==
    LET i == ScanFor(lines, section, key, 1, <<>>)
    IN  IF i = 0 THEN [value |-> <<>>, ok |-> FALSE]
        ELSE [value |-> lines[i].Value, ok |-> TRUE]

KeyExists(lines, section, key) == ScanFor(lines, section, key, 1, <<>>) # 0

\* AddKey's place for a key of the root section: before the first empty
\* line, header or commented key, else at the end
RootInsertIndex(lines) ==
    LET stops == {i \in DOMAIN lines :
                     \/ lines[i].IsEmpty
                     \/ lines[i].IsSection
                     \/ (lines[i].CommentPrefix # <<>> /\ lines[i].Key # <<>>)}
    IN  IF stops = {} THEN Len(lines) + 1
        ELSE CHOOSE i \in stops : \A j \in stops : i <= j

\* AddKey's scan for a named section: the index of the last active key seen
\* while inSection, 0 when there is none; the scan ends at the first header
\* of another section met after the section was entered
RECURSIVE LastKeyIndex(_, _, _, _, _)
LastKeyIndex(lines, section, i, inSection, lastKeyIndex) ==
    IF i > Len(lines) THEN lastKeyIndex
    ELSE IF lines[i].IsSection
    THEN IF lines[i].Section = section
         THEN LastKeyIndex(lines, section, i + 1, TRUE, lastKeyIndex)
         ELSE IF inSection THEN lastKeyIndex
         ELSE LastKeyIndex(lines, section, i + 1, inSection, lastKeyIndex)
    ELSE IF inSection /\ lines[i].Key # <<>> /\ lines[i].CommentPrefix = <<>>
    THEN LastKeyIndex(lines, section, i + 1, inSection, i)
    ELSE LastKeyIndex(lines, section, i + 1, inSection, lastKeyIndex)

AddKey(lines, section, key, value) ==
    LET lastKeyIndex == LastKeyIndex(lines, section, 1, FALSE, 0)
        insertIndex == IF section = <<>> THEN RootInsertIndex(lines)
                       ELSE IF lastKeyIndex # 0 THEN lastKeyIndex + 1
                       ELSE Len(lines) + 1
        newLine == [ZeroLine EXCEPT !.Section = section, !.Key = key,
                                    !.Value = value]
    IN  SubSeq(lines, 1, insertIndex - 1) \o <<newLine>>
            \o SubSeq(lines, insertIndex, Len(lines))

-----------------------------------------------------------------------------
(* SpecLines: a caller parses a file of up to MaxLines lines and then      *)
(* calls one of the line operations on the parsed lines.                   *)

OpsVocab ==
    { <<"[", "s", "]">>,
      <<"[", "t", "]">>,
      <<"a", "=", "1">>,
      <<"#", "a">>,
      <<>> }

OpsSections == {<<>>, <<"s">>, <<"t">>}
OpsKeys == {<<"a">>, <<"c">>}
OpsValue == <<"9">>

InitLines ==
    /\ input \in {Join(ls) : ls \in SeqsUpTo(OpsVocab, MaxLines)}
    /\ w = NewINIWrapper
    /\ data = EmptyMap
    /\ output = <<>>
    /\ edits = <<>>
    /\ ipc = "start"
    /\ round1 = NoRound
    /\ flat = EmptyMap
    /\ ld = NoLoad
    /\ call = NoCall
    /\ EngineIdle

LinesFrame ==
    /\ UNCHANGED <<input, data, output, edits, round1, flat, ld>>
    /\ UNCHANGED engVars

ParseLinesStep ==
    /\ ipc = "start"
    /\ w' = [w EXCEPT !.lines = Parse(w.parser, input)]
    /\ ipc' = "parsed"
    /\ UNCHANGED call
    /\ LinesFrame

\* the record of a call: its arguments, the lines it was given, its result
Called(name, section, key, value, before, found) ==
    [name |-> name, section |-> section, key |-> key, value |-> value,
     before |-> before, found |-> found]

UpdateValueStep ==
    /\ ipc = "parsed"
    /\ \E section \in OpsSections, key \in OpsKeys :
          /\ w' = [w EXCEPT !.lines = UpdateValue(w.lines, section, key, OpsValue)]
          /\ call' = Called("UpdateValue", section, key, OpsValue, w.lines,
                            [value |-> <<>>, ok |-> FALSE])
    /\ ipc' = "called"
    /\ LinesFrame

AddKeyStep ==
    /\ ipc = "parsed"
    /\ \E section \in OpsSections, key \in OpsKeys :
          /\ w' = [w EXCEPT !.lines = AddKey(w.lines, section, key, OpsValue)]
          /\ call' = Called("AddKey", section, key, OpsValue, w.lines,
                            [value |-> <<>>, ok |-> FALSE])
    /\ ipc' = "called"
    /\ LinesFrame

GetValueStep ==
    /\ ipc = "parsed"
    /\ \E section \in OpsSections, key \in OpsKeys :
          call' = Called("GetValue", section, key, <<>>, w.lines,
                         GetValue(w.lines, section, key))
    /\ ipc' = "called"
    /\ UNCHANGED w
    /\ LinesFrame

KeyExistsStep ==
    /\ ipc = "parsed"
    /\ \E section \in OpsSections, key \in OpsKeys :
          call' = Called("KeyExists", section, key, <<>>, w.lines,
                         [value |-> <<>>, ok |-> KeyExists(w.lines, section, key)])
    /\ ipc' = "called"
    /\ UNCHANGED w
    /\ LinesFrame

NextLines ==
    \/ ParseLinesStep
    \/ UpdateValueStep
    \/ AddKeyStep
    \/ GetValueStep
    \/ KeyExistsStep

SpecLines == InitLines /\ [][NextLines]_vars

-----------------------------------------------------------------------------
(* C26 *)

\* the section a line of a line vector lies in: that of the nearest header
\* above it, the root section when there is none
SectionAt(lines, i) ==
    LET heads == {j \in 1..(i - 1) : lines[j].IsSection}
    IN  IF heads = {} THEN <<>>
        ELSE lines[CHOOSE j \in heads : \A k \in heads : k <= j].Section

\* the indexes of the active (non-comment) lines of section with this key
ActiveMatches(lines, section, key) ==
    {i \in DOMAIN lines : /\ IsActiveKey(lines[i])
                          /\ SectionAt(lines, i) = section
                          /\ lines[i].Key = key}

FirstActive(lines, section, key) ==
    LET hits == ActiveMatches(lines, section, key)
    IN  IF hits = {} THEN 0 ELSE CHOOSE i \in hits : \A j \in hits : i <= j

\* C26: UpdateValue sets the Value of the first active line of the section
\* with the key and changes no other line; UpdateValue, GetValue and
\* KeyExists never match a comment line, whatever its text.
C26_CommentsNeverMatched ==
    ipc = "called" =>
        LET first1 == FirstActive(call.before, call.section, call.key)
        IN  /\ call.name = "UpdateValue" =>
                w.lines = IF first1 = 0 THEN call.before
                          ELSE [call.before EXCEPT
                                   ![first1] = [@ EXCEPT !.Value = call.value]]
            /\ call.name = "GetValue" =>
                call.found = IF first1 = 0 THEN [value |-> <<>>, ok |-> FALSE]
                             ELSE [value |-> call.before[first1].Value, ok |-> TRUE]
            /\ call.name = "KeyExists" => call.found.ok = (first1 # 0)

-----------------------------------------------------------------------------
(* C27 *)

ActiveKeysIn(lines, section) ==
    Cardinality({i \in DOMAIN lines : /\ IsActiveKey(lines[i])
                                      /\ SectionAt(lines, i) = section})

HasHeader(lines, section) ==
    \E i \in DOMAIN lines : lines[i].IsSection /\ lines[i].Section = section

\* lines is before with one line inserted
OneInserted(before, lines) ==
    \E i \in DOMAIN lines :
        before = SubSeq(lines, 1, i - 1) \o SubSeq(lines, i + 1, Len(lines))

\* C27: AddKey of a key the section does not have, for a section whose
\* header is present, raises the section's number of active keys by one,
\* leaves every other line as it was and in order, and GetValue then returns
\* the value.
C27_AddKeyLandsInSection ==
    (/\ ipc = "called" /\ call.name = "AddKey"
     /\ HasHeader(call.before, call.section)
     /\ ~KeyExists(call.before, call.section, call.key)) =>
        /\ ActiveKeysIn(w.lines, call.section)
              = ActiveKeysIn(call.before, call.section) + 1
        /\ OneInserted(call.before, w.lines)
        /\ GetValue(w.lines, call.section, call.key)
              = [value |-> call.value, ok |-> TRUE]

-----------------------------------------------------------------------------
(* SpecApply: a caller of the file executor, as in SpecExec, on one file   *)
(* target that asks for a backup, names an owner or a group, or gives a    *)
(* mode.                                                                   *)

ApplyTarget(name, backup, owner, group, mode) ==
    Target(name, TYPE_FILE,
           [BaseConfig EXCEPT !.Path = "p1", !.Format = "ini", !.Backup = backup,
                              !.Owner = owner, !.Group = group, !.Mode = mode,
                              !.Content = SectionOf(<<"s">>, <<"a">>, Str(<<"9">>))])

ApplyPool ==
    { ApplyTarget("plain", FALSE, "", "", <<>>),
      ApplyTarget("kept", TRUE, "root", "root", <<"6", "4", "4">>),
      ApplyTarget("owned", TRUE, "nobody", "", <<>>),
      ApplyTarget("grouped", FALSE, "", "nobody", <<>>),
      ApplyTarget("moded", TRUE, "", "", <<"9">>) }

InitApply ==
    /\ cli = [DryRun |-> FALSE, Force |-> FALSE, Backup |-> FALSE, Targets |-> <<>>]
    /\ sysconf \in [Targets : TargetLists(ApplyPool, 1),
                    Hooks : {[PreApply |-> <<>>, PostApply |-> <<>>]}]
    /\ targets = sysconf.Targets
    /\ fs \in {[p \in Paths |-> IF p = "p1" THEN f ELSE NoFile] : f \in FileContents}
    /\ fs0 = fs
    /\ snap = fs
    /\ bk = {}
    /\ w = NewINIWrapper
    /\ pc = "call"
    /\ hk = 1
    /\ idx = 1
    /\ phase = "none"
    /\ cur = EmptyMap
    /\ curDiff = NilDiff
    /\ log = <<>>
    /\ exitErr = Ok
    /\ run = 1
    /\ last = NoLast
    /\ IniIdle

SpecApply == InitApply /\ [][NextExec]_vars

\* Apply has returned to the caller
ApplyReturned == phase = "apply" /\ pc = "returned"

\* the path of the target the caller works on
ApplyPath == targets[1].Config.Path

-----------------------------------------------------------------------------
(* C28 *)

\* C28: whenever Apply changes the content of an existing file of a target
\* with backup enabled, the backup named after the content the file had
\* before the call exists afterwards and holds that whole content, also
\* when an earlier call failed part-way through creating the backup.
C28_BackupHoldsOldContent ==
    (/\ ApplyReturned
     /\ targets[1].Config.Backup
     /\ snap[ApplyPath].exists
     /\ fs[ApplyPath] # snap[ApplyPath]) =>
        \E b \in bk : /\ b.path = ApplyPath
                      /\ b.of = snap[ApplyPath].bytes
                      /\ b.bytes = snap[ApplyPath].bytes

-----------------------------------------------------------------------------
(* C29 *)

\* C29: if Apply returns an error, for whatever reason, the content of the
\* target's file is what it was before the call.
C29_ErrorLeavesFile ==
    (ApplyReturned /\ exitErr # Ok) => fs[ApplyPath] = snap[ApplyPath]

-----------------------------------------------------------------------------
(* Parse with the line scanner's buffer: bufio.Scanner reads the input     *)
(* into a buffer and hands out each token as a slice of that buffer;       *)
(* parseLine keeps the slice as Original (ini.go:84-87).  The buffer is    *)
(* reused: data is shifted to its front and new input is read over it.     *)

\* the scanner's first buffer, in bytes: the model's stand-in for the
\* library's 4096, scaled to the model's short lines
BufSize == 4

\* the longest token the scanner accepts: sixteen first buffers
MaxTokenSize == 16 * BufSize

\* a byte of a fresh buffer
NUL == "NUL"

\* bufs: every buffer the scanner allocated, the current one last; start,
\* end: the unread data of the current buffer (0-based, end exclusive);
\* r: the bytes the reader has handed over; err: the reader's sticky error
NewScanner ==
    [bufs |-> << <<>> >>, start |-> 0, end |-> 0, r |-> 0, err |-> ""]

Buf(s) == s.bufs[Len(s.bufs)]

\* a slice: bytes from..to-1 (0-based) of buffer g
Slice(g, from, to) == [g |-> g, from |-> from, to |-> to]

BytesOf(s, slice) == SubSeq(s.bufs[slice.g], slice.from + 1, slice.to)

\* copy(dst[at:], src)
CopyInto(dst, at, src) ==
    [i \in 1..Len(dst) |->
        IF i > at /\ i <= at + Len(src) THEN src[i - at] ELSE dst[i]]

\* Scan shifts the unread data to the front of the buffer
Shifted(s) ==
    [s EXCEPT !.bufs[Len(s.bufs)] = CopyInto(@, 0, SubSeq(@, s.start + 1, s.end)),
              !.end = s.end - s.start,
              !.start = 0]

\* Scan allocates a buffer twice as large and copies the unread data
Grown(s) ==
    LET len == Len(Buf(s))
        twice == IF len = 0 THEN BufSize ELSE 2 * len
        newSize == IF twice < MaxTokenSize THEN twice ELSE MaxTokenSize
        newBuf == CopyInto([i \in 1..newSize |-> NUL], 0,
                           SubSeq(Buf(s), s.start + 1, s.end))
    IN  [s EXCEPT !.bufs = Append(@, newBuf),
                  !.end = s.end - s.start,
                  !.start = 0]

\* bytes.Reader.Read into buf[end:]
ReadMore(s, reader) ==
    IF s.r >= Len(reader) THEN [s EXCEPT !.err = "EOF"]
    ELSE LET room == Len(Buf(s)) - s.end
             left == Len(reader) - s.r
             n == IF room < left THEN room ELSE left
         IN  [s EXCEPT !.bufs[Len(s.bufs)] =
                           CopyInto(@, s.end, SubSeq(reader, s.r + 1, s.r + n)),
                       !.end = s.end + n,
                       !.r = s.r + n]

\* a token without its trailing carriage return
dropCRSlice(s, slice) ==
    IF slice.to > slice.from /\ Buf(s)[slice.to] = CR
    THEN [slice EXCEPT !.to = @ - 1] ELSE slice

\* Scanner.Scan with bufio.ScanLines: ok and the token, a slice of the
\* current buffer, or not ok at the end of the input or on ErrTooLong
RECURSIVE Scan(_, _)
Scan(s, reader) ==
    LET unread == SubSeq(Buf(s), s.start + 1, s.end)
        atEOF == s.err # ""
        nl == Find(unread, 1, LF)
        g == Len(s.bufs)
        shifted == IF s.start > 0 /\ (s.end = Len(Buf(s)) \/ s.start > Len(Buf(s)) \div 2)
                   THEN Shifted(s) ELSE s
    IN
    IF nl <= Len(unread)
    THEN [ok |-> TRUE,
          token |-> dropCRSlice(s, Slice(g, s.start, s.start + nl - 1)),
          s |-> [s EXCEPT !.start = s.start + nl]]
    ELSE IF atEOF /\ unread # <<>>
    THEN [ok |-> TRUE,
          token |-> dropCRSlice(s, Slice(g, s.start, s.end)),
          s |-> [s EXCEPT !.start = s.end]]
    ELSE IF atEOF
    THEN [ok |-> FALSE, token |-> Slice(g, 0, 0), s |-> [s EXCEPT !.start = 0, !.end = 0]]
    ELSE IF shifted.end = Len(Buf(shifted)) /\ Len(Buf(shifted)) >= MaxTokenSize
    THEN [ok |-> FALSE, token |-> Slice(g, 0, 0),
          s |-> [shifted EXCEPT !.err = "ErrTooLong"]]
    ELSE IF shifted.end = Len(Buf(shifted))
    THEN Scan(ReadMore(Grown(shifted), reader), reader)
    ELSE Scan(ReadMore(shifted, reader), reader)

\* Parse's loop: each token is parsed as the buffer holds it at that moment,
\* Original is the token's slice itself
RECURSIVE scanTokens(_, _, _, _, _)
scanTokens(p, s, reader, currentSection, lines) ==
    LET scanned == Scan(s, reader)
        parsedLine == [parseLine(p, BytesOf(scanned.s, scanned.token), currentSection)
                          EXCEPT !.Original = scanned.token]
    IN  IF ~scanned.ok THEN [lines |-> lines, s |-> scanned.s]
        ELSE scanTokens(p, scanned.s, reader,
                        IF parsedLine.IsSection THEN parsedLine.Section
                        ELSE currentSection,
                        Append(lines, parsedLine))

\* what Parse returns: the lines, each Original read through its slice when
\* Parse returns, and scanner.Err()
ParseScanned(p, bytes) ==
    LET done == scanTokens(p, NewScanner, bytes, <<>>, <<>>)
    IN  [lines |-> [i \in DOMAIN done.lines |->
                       [done.lines[i] EXCEPT !.Original = BytesOf(done.s, @)]],
         err |-> IF done.s.err = "ErrTooLong" THEN <<"bufio.Scanner: token too long">>
                 ELSE Ok]

-----------------------------------------------------------------------------
(* SpecScan: Parse, with the scanner's buffer, then Serialize, of files of *)
(* up to MaxLines lines drawn from ScanVocab.                              *)

ScanVocab ==
    { <<SP>>,
      <<"#">>,
      <<"a", "=", "1">>,
      <<"[", "s", "]">>,
      <<>> }

InitScan ==
    /\ input \in {Join(ls) : ls \in SeqsUpTo(ScanVocab, MaxLines)}
    /\ w = NewINIWrapper
    /\ data = <<>>
    /\ output = <<>>
    /\ edits = <<>>
    /\ ipc = "start"
    /\ round1 = NoRound
    /\ flat = EmptyMap
    /\ ld = NoLoad
    /\ call = NoCall
    /\ EngineIdle

ParseScannedStep ==
    /\ ipc = "start"
    /\ \E parsed \in {ParseScanned(w.parser, input)} :
          /\ w' = [w EXCEPT !.lines = parsed.lines]
          /\ call' = [name |-> "Parse", err |-> parsed.err]
    /\ ipc' = "parsed"
    /\ UNCHANGED <<input, data, output, edits, round1, flat, ld>>
    /\ UNCHANGED engVars

NextScan == ParseScannedStep \/ SerializeStep

SpecScan == InitScan /\ [][NextScan]_vars

-----------------------------------------------------------------------------
(* C30 *)

\* the line is written from Original: whitespace only, or a bare comment
\* marker
WrittenFromOriginal(line) ==
    line.IsEmpty \/ (line.CommentPrefix # <<>> /\ line.Key = <<>>)

\* C30: after Parse returns, each line's Original is the bytes of its own
\* source line, also for inputs larger than the scanner's buffer, and
\* Serialize writes whitespace-only lines and bare comment markers as they
\* were.
C30_OriginalIsOwnLine ==
    /\ ipc \in {"parsed", "serialized"} =>
          /\ Len(w.lines) = Len(ScanLines(input))
          /\ \A i \in DOMAIN w.lines : w.lines[i].Original = ScanLines(input)[i]
    /\ ipc = "serialized" =>
          \A i \in DOMAIN w.lines :
              WrittenFromOriginal(w.lines[i]) =>
                  /\ i <= Len(ScanLines(output))
                  /\ ScanLines(output)[i] = ScanLines(input)[i]

====
